---- MODULE Spec2Model ----
(***************************************************************************)
(* Enchanted Notes: the interactive (Muse) trigger detector, the streaming *)
(* insertion of a response into the note, the background (Whisper)         *)
(* analysis, the whisper index of the editor, context detection and the    *)
(* annotation grammar (parse, create, remove).                             *)
(*                                                                         *)
(* Text is a sequence of one-character strings; offsets are 0-based as in  *)
(* the TypeScript source, sequences are 1-based as in TLA+.                *)
(*                                                                         *)
(* Host behaviour the source relies on and the model assumes:              *)
(*  - a Markdown view with a file is always active (one document);         *)
(*  - editor.replaceRange dispatches a transaction that maps the cursor    *)
(*    through the change (CodeMirror mapPos, assoc = -1);                  *)
(*  - editor.offsetToPos clamps an offset to the document length;          *)
(*  - a timer callback runs when its due time is reached;                  *)
(*  - the trigger callback may change the document from within the update  *)
(*    listener that invoked it.                                            *)
(***************************************************************************)
EXTENDS Integers, Sequences, FiniteSets, TLC

VARIABLES
  doc,            \* editor.getValue(): the note's text
  cursor,         \* editor.posToOffset(editor.getCursor())
  now,            \* Date.now()
  configured,     \* provider.isConfigured()
  linkedNotes,    \* settings.enableLinkedNoteContext
  tm,             \* TriggerManager: enabled, lastContent, lastEnterTime, pauseTimer
  isGenerating,   \* MuseMode.isGenerating
  gens,           \* the handleTrigger calls suspended at an await
  whispers,       \* whisperState: sequence of [line, content]
  wtm,            \* WhisperTriggerManager: enabled, analysisTimer, lastAnalyzedContent, lastWhisperTime
  isAnalyzing,    \* WhisperMode.isAnalyzing
  lastParagraphAnalyzed, \* WhisperMode.lastParagraphAnalyzed
  analyses,       \* the handleAnalyze calls suspended at an await
  fm,             \* the note's frontmatter: enabled, hasFirstResponse
  edits,          \* history: number of user edits so far
  commands,       \* history: number of commands run so far
  ticks,          \* history: number of interval ticks so far
  prevNewline,    \* history: the user's most recent newline insertion
  quiet,          \* history: a stream committed and the user has not edited since
  lastAdded,      \* history: when handleAnalyze last called addWhisper (0: never)
  input,          \* the arguments of a call of a pure function
  last            \* history: what the last step did

vars == <<doc, cursor, now, configured, linkedNotes, tm, isGenerating, gens,
          whispers, wtm, isAnalyzing, lastParagraphAnalyzed, analyses, fm,
          edits, commands, ticks, prevNewline, quiet, lastAdded, input, last>>

----------------------------------------------------------------------------
(* Bounds of the model *)

MaxEdits == 2
MaxChunks == 2
MaxCommands == 1
MaxTicks == 2
MaxElapsed == 600
StartTime == 100000

----------------------------------------------------------------------------
(* Text *)

NL == "\n"
NoTimer == -1

\* a local constant of the source: v is evaluated once and F applied to its value
Let(v, F(_)) == CHOOSE r \in {F(x) : x \in {v}} : TRUE

Min(S) == Let(S, LAMBDA T : CHOOSE x \in T : \A y \in T : x <= y)

Max(S) == Let(S, LAMBDA T : CHOOSE x \in T : \A y \in T : x >= y)

\* s.substring(from, to), 0-based, half-open
Slice(s, from, to) == SubSeq(s, from + 1, to)

\* does p occur in s at 0-based offset i
StartsAt(s, p, i) ==
  /\ i >= 0
  /\ i + Len(p) <= Len(s)
  /\ \A k \in 1..Len(p) : s[i + k] = p[k]

\* s.indexOf(p, from): first offset >= from where p occurs, or -1
IndexOfFrom(s, p, from) ==
  Let({i \in from..(Len(s) - Len(p)) : StartsAt(s, p, i)},
      LAMBDA hits : IF hits = {} THEN -1 ELSE Min(hits))

IndexOf(s, p) == IndexOfFrom(s, p, 0)

\* the text with [from, to) replaced by ins
ReplaceRange(s, from, to, ins) ==
  SubSeq(s, 1, from) \o ins \o SubSeq(s, to + 1, Len(s))

\* ChangeSet.mapPos(pos) with assoc = -1 for the single change [from, to) -> insLen
MapPos(pos, from, to, insLen) ==
  IF pos <= from THEN pos
  ELSE IF pos < to THEN from
  ELSE pos - (to - from) + insLen

\* count of line breaks in s before offset pos
BreaksBefore(s, pos) == Cardinality({i \in 1..pos : s[i] = NL})

\* doc.lines
DocLines(s) == BreaksBefore(s, Len(s)) + 1

\* doc.lineAt(pos).number
LineAt(s, pos) == BreaksBefore(s, pos) + 1

\* doc.line(n).from, for 1 <= n <= doc.lines
LineFrom(s, n) ==
  IF n = 1 THEN 0
  ELSE Min({i \in 1..Len(s) : s[i] = NL /\ BreaksBefore(s, i) = n - 1})

----------------------------------------------------------------------------
(* Annotation grammar (utils/parser.ts) *)

Chars(n, c) == [i \in 1..n |-> c]

INLINE_MUSE_OPEN == <<":", ":", "m", "u", "s", "e", "[">>
INLINE_WHISPER_OPEN == <<":", ":", "w", "h", "i", "s", "p", "e", "r", "[">>
INLINE_CLOSE == <<"]", ":", ":">>
MULTILINE_MUSE_OPEN == <<":", ":", ":", "m", "u", "s", "e", NL>>
MULTILINE_WHISPER_OPEN == <<":", ":", ":", "w", "h", "i", "s", "p", "e", "r", NL>>
MULTILINE_CLOSE == <<NL, ":", ":", ":">>

\* One attempt of /open(.*?)close/ (inline: "." matches no line break) or of
\* /open([\s\S]*?)close/ (multiline) at offset i: the end offset of the match,
\* or -1. The lazy body stops at the first close after the opener.
MatchEndAt(s, open, close, multiline, i) ==
  IF ~StartsAt(s, open, i) THEN -1
  ELSE Let(IndexOfFrom(s, close, i + Len(open)),
           LAMBDA j :
             IF j < 0 THEN -1
             ELSE IF ~multiline /\ \E k \in (i + Len(open) + 1)..j : s[k] = NL THEN -1
             ELSE j + Len(close))

\* the offset of the leftmost match at or after from, or -1 (RegExp.exec with lastIndex)
NextMatch(s, open, close, multiline, from) ==
  Let({i \in from..Len(s) : MatchEndAt(s, open, close, multiline, i) >= 0},
      LAMBDA hits : IF hits = {} THEN -1 ELSE Min(hits))

\* the while ((match = PATTERN.exec(content)) !== null) loop of parseEnchantments
RECURSIVE ExecAll(_, _, _, _, _, _)
ExecAll(s, type, open, close, multiline, from) ==
  Let(NextMatch(s, open, close, multiline, from),
      LAMBDA i :
        IF i < 0 THEN <<>>
        ELSE Let(MatchEndAt(s, open, close, multiline, i),
                 LAMBDA e :
                   <<[type |-> type,
                      content |-> Slice(s, i + Len(open), e - Len(close)),
                      isMultiline |-> multiline,
                      start |-> i,
                      end |-> e]>> \o ExecAll(s, type, open, close, multiline, e)))

\* blocks.sort((a, b) => a.start - b.start): a stable sort
RECURSIVE SortByStart(_)
SortByStart(blocks) ==
  IF Len(blocks) <= 1 THEN blocks
  ELSE Let(SortByStart(Tail(blocks)),
           LAMBDA rest :
             SelectSeq(rest, LAMBDA x : x.start < Head(blocks).start)
             \o <<Head(blocks)>>
             \o SelectSeq(rest, LAMBDA x : x.start >= Head(blocks).start))

parseEnchantments(content) ==
  Let(ExecAll(content, "muse", INLINE_MUSE_OPEN, INLINE_CLOSE, FALSE, 0)
      \o ExecAll(content, "whisper", INLINE_WHISPER_OPEN, INLINE_CLOSE, FALSE, 0)
      \o ExecAll(content, "muse", MULTILINE_MUSE_OPEN, MULTILINE_CLOSE, TRUE, 0)
      \o ExecAll(content, "whisper", MULTILINE_WHISPER_OPEN, MULTILINE_CLOSE, TRUE, 0),
      LAMBDA blocks : SortByStart(blocks))

\* createMuseBlock(content, multiline)
createMuseBlock(content, multiline) ==
  IF multiline \/ IndexOf(content, <<NL>>) >= 0
  THEN MULTILINE_MUSE_OPEN \o content \o MULTILINE_CLOSE
  ELSE INLINE_MUSE_OPEN \o content \o INLINE_CLOSE

\* createWhisperBlock(content, multiline)
createWhisperBlock(content, multiline) ==
  IF multiline \/ IndexOf(content, <<NL>>) >= 0
  THEN MULTILINE_WHISPER_OPEN \o content \o MULTILINE_CLOSE
  ELSE INLINE_WHISPER_OPEN \o content \o INLINE_CLOSE

\* s.slice(from).replace(PATTERN, ''): one pass over the matches, left to right;
\* the text a removal brings together is not scanned again
RECURSIVE RemoveMatches(_, _, _, _, _)
RemoveMatches(s, open, close, multiline, from) ==
  Let(NextMatch(s, open, close, multiline, from), LAMBDA i :
    IF i < 0 THEN Slice(s, from, Len(s))
    ELSE Slice(s, from, i)
         \o RemoveMatches(s, open, close, multiline,
                          MatchEndAt(s, open, close, multiline, i)))

\* the length of the run of line breaks at the head of s
RECURSIVE BreakRun(_)
BreakRun(s) == IF s = <<>> \/ Head(s) # NL THEN 0 ELSE 1 + BreakRun(Tail(s))

\* result.replace(/\n{3,}/g, '\n\n')
RECURSIVE CollapseBreaks(_)
CollapseBreaks(s) ==
  IF s = <<>> THEN <<>>
  ELSE Let(BreakRun(s), LAMBDA run :
         IF run = 0 THEN <<Head(s)>> \o CollapseBreaks(Tail(s))
         ELSE SubSeq(s, 1, IF run >= 3 THEN 2 ELSE run)
              \o CollapseBreaks(SubSeq(s, run + 1, Len(s))))

\* removeAllEnchantments: multiline blocks first, then inline, then blank lines
removeAllEnchantments(content) ==
  Let(RemoveMatches(content, MULTILINE_MUSE_OPEN, MULTILINE_CLOSE, TRUE, 0), LAMBDA r1 :
  Let(RemoveMatches(r1, MULTILINE_WHISPER_OPEN, MULTILINE_CLOSE, TRUE, 0), LAMBDA r2 :
  Let(RemoveMatches(r2, INLINE_MUSE_OPEN, INLINE_CLOSE, FALSE, 0), LAMBDA r3 :
  Let(RemoveMatches(r3, INLINE_WHISPER_OPEN, INLINE_CLOSE, FALSE, 0), LAMBDA r4 :
    CollapseBreaks(r4)))))

\* isInsideEnchantment with the end of a block excluded
isInsideEnchantmentExclusive(content, position) ==
  \E block \in Let(parseEnchantments(content),
                   LAMBDA blocks : {blocks[k] : k \in 1..Len(blocks)}) :
    position >= block.start /\ position < block.end

isInsideEnchantment(content, position) ==
  \E block \in Let(parseEnchantments(content),
                   LAMBDA blocks : {blocks[k] : k \in 1..Len(blocks)}) :
    position >= block.start /\ position <= block.end

----------------------------------------------------------------------------
(* The placeholder of a generation (modes/muse.ts) *)

\* '\n\n::muse[...]::  ', the text handleTrigger inserts at the cursor
PLACEHOLDER == INLINE_MUSE_OPEN \o <<".", ".", ".">> \o INLINE_CLOSE
PlaceholderInsert == <<NL, NL>> \o PLACEHOLDER \o <<" ", " ">>

\* `::muse[${streamedContent}]::`
MuseInline(payload) == INLINE_MUSE_OPEN \o payload \o INLINE_CLOSE

\* One attempt of /::muse\[([^\]]*)\]::/ at offset i: the end offset or -1. The
\* body takes every character up to the first "]", which must start "]::".
StreamMatchEndAt(s, i) ==
  IF ~StartsAt(s, INLINE_MUSE_OPEN, i) THEN -1
  ELSE Let(IndexOfFrom(s, <<"]">>, i + Len(INLINE_MUSE_OPEN)),
           LAMBDA j :
             IF j >= 0 /\ StartsAt(s, INLINE_CLOSE, j) THEN j + Len(INLINE_CLOSE) ELSE -1)

\* currentContent.match(/::muse\[([^\]]*)\]::/): the matched text, or <<>> for null
StreamMatch(s) ==
  Let({i \in 0..Len(s) : StreamMatchEndAt(s, i) >= 0},
      LAMBDA hits :
        IF hits = {} THEN <<>>
        ELSE Let(Min(hits), LAMBDA i : Slice(s, i, StreamMatchEndAt(s, i))))

\* currentContent.match(/::muse\[\.\.\.\]::/): the matched text, or <<>> for null
RetractMatch(s) == IF IndexOf(s, PLACEHOLDER) >= 0 THEN PLACEHOLDER ELSE <<>>

----------------------------------------------------------------------------
(* Whisper index: whisperState (rendering/whisper-widget.ts) *)

\* the .map(...).filter(...) of whisperState.update when tr.docChanged:
\* doc.line(n) throws for n < 1, and the catch drops the entry
RemapWhisper(w, oldDoc, newDoc, from, to, insLen) ==
  Let(IF w.line < DocLines(oldDoc) THEN w.line ELSE DocLines(oldDoc),
      LAMBDA n :
        IF n < 1 THEN <<>>
        ELSE <<[w EXCEPT !.line =
                  LineAt(newDoc, MapPos(LineFrom(oldDoc, n), from, to, insLen))]>>)

RECURSIVE RemapWhispers(_, _, _, _, _, _)
RemapWhispers(ws, oldDoc, newDoc, from, to, insLen) ==
  IF ws = <<>> THEN <<>>
  ELSE RemapWhisper(Head(ws), oldDoc, newDoc, from, to, insLen)
       \o RemapWhispers(Tail(ws), oldDoc, newDoc, from, to, insLen)

\* Fault variant of addWhisperEffect: the whispers on that line are kept.
AddWhisperAppend(ws, line, content) ==
  Append(ws, [line |-> line, content |-> content])

\* addWhisperEffect: replace any whisper on that line, append the new one
AddWhisperEffect(ws, line, content) ==
  Append(SelectSeq(ws, LAMBDA w : w.line # line), [line |-> line, content |-> content])

\* removeWhisperEffect
RemoveWhisperEffect(ws, line) == SelectSeq(ws, LAMBDA w : w.line # line)

\* clearWhispersEffect
ClearWhispersEffect(ws) == <<>>

----------------------------------------------------------------------------
(* TriggerManager (detection/triggers.ts) *)

DOUBLE_ENTER_THRESHOLD == 300
pauseDurationSeconds == 2
pauseDuration == pauseDurationSeconds * 1000

\* The manager is a record: enabled, lastContent, lastEnterTime, pauseTimer (the
\* handle of the last setTimeout, modelled by its due time, NoTimer for null),
\* onPauseTrigger and onDoubleEnterTrigger (is the callback set), scheduled (the
\* number of timeouts of this manager that the host holds), and pending:
\* the host's side of the handle, whether that timeout is still to run.

\* clearPauseTimer
ClearPauseTimer(t) ==
  IF t.pauseTimer # NoTimer
  THEN [t EXCEPT !.pauseTimer = NoTimer, !.pending = FALSE,
                 !.scheduled = IF t.pending THEN @ - 1 ELSE @]
  ELSE t

\* Fault variant of checkDoubleEnter: the pending pause timer is left running
\* when a double enter is detected.
CheckDoubleEnterKeepTimer(t, inserted, time) ==
  LET hasNewline == inserted = <<NL>> \/ inserted = <<"\r", NL>>
      timeSinceLastEnter == time - t.lastEnterTime
  IN IF ~hasNewline
     THEN [tm |-> t, result |-> FALSE, fire |-> FALSE, timerAtCall |-> NoTimer]
     ELSE IF timeSinceLastEnter < DOUBLE_ENTER_THRESHOLD
     THEN [tm |-> [t EXCEPT !.lastEnterTime = 0],
           result |-> TRUE,
           fire |-> t.onDoubleEnterTrigger,
           timerAtCall |-> IF t.pending THEN t.pauseTimer ELSE NoTimer]
     ELSE [tm |-> [t EXCEPT !.lastEnterTime = time],
           result |-> FALSE, fire |-> FALSE, timerAtCall |-> NoTimer]

\* Fault variant of checkDoubleEnter: the threshold is inclusive.
CheckDoubleEnterInclusive(t, inserted, time) ==
  LET hasNewline == inserted = <<NL>> \/ inserted = <<"\r", NL>>
      timeSinceLastEnter == time - t.lastEnterTime
  IN IF ~hasNewline
     THEN [tm |-> t, result |-> FALSE, fire |-> FALSE, timerAtCall |-> NoTimer]
     ELSE IF timeSinceLastEnter <= DOUBLE_ENTER_THRESHOLD
     THEN LET cleared == ClearPauseTimer([t EXCEPT !.lastEnterTime = 0])
          IN [tm |-> cleared,
              result |-> TRUE,
              fire |-> t.onDoubleEnterTrigger,
              timerAtCall |-> cleared.pauseTimer]
     ELSE [tm |-> [t EXCEPT !.lastEnterTime = time],
           result |-> FALSE, fire |-> FALSE, timerAtCall |-> NoTimer]

\* Fault variant of checkDoubleEnter: a detected double enter records its time
\* instead of resetting lastEnterTime.
CheckDoubleEnterNoReset(t, inserted, time) ==
  LET hasNewline == inserted = <<NL>> \/ inserted = <<"\r", NL>>
      timeSinceLastEnter == time - t.lastEnterTime
  IN IF ~hasNewline
     THEN [tm |-> t, result |-> FALSE, fire |-> FALSE, timerAtCall |-> NoTimer]
     ELSE IF timeSinceLastEnter < DOUBLE_ENTER_THRESHOLD
     THEN LET cleared == ClearPauseTimer([t EXCEPT !.lastEnterTime = time])
          IN [tm |-> cleared,
              result |-> TRUE,
              fire |-> t.onDoubleEnterTrigger,
              timerAtCall |-> cleared.pauseTimer]
     ELSE [tm |-> [t EXCEPT !.lastEnterTime = time],
           result |-> FALSE, fire |-> FALSE, timerAtCall |-> NoTimer]

\* checkDoubleEnter: the manager after the call, the value returned, whether
\* onDoubleEnterTrigger is called and the pause timer as it is at that call
CheckDoubleEnter(t, inserted, time) ==
  LET hasNewline == inserted = <<NL>> \/ inserted = <<"\r", NL>>
      timeSinceLastEnter == time - t.lastEnterTime
  IN IF ~hasNewline
     THEN [tm |-> t, result |-> FALSE, fire |-> FALSE, timerAtCall |-> NoTimer]
     ELSE IF timeSinceLastEnter < DOUBLE_ENTER_THRESHOLD
     THEN LET cleared == ClearPauseTimer([t EXCEPT !.lastEnterTime = 0])
          IN [tm |-> cleared,
              result |-> TRUE,
              fire |-> t.onDoubleEnterTrigger,
              timerAtCall |-> cleared.pauseTimer]
     ELSE [tm |-> [t EXCEPT !.lastEnterTime = time],
           result |-> FALSE, fire |-> FALSE, timerAtCall |-> NoTimer]

\* Fault variant of resetPauseTimer: the timer that is pending is not cleared.
ResetPauseTimerNoClear(t, time) ==
  [t EXCEPT !.pauseTimer = time + pauseDuration, !.pending = TRUE,
            !.scheduled = @ + 1]

\* resetPauseTimer: clear the pending timer, start one due after pauseDuration
ResetPauseTimer(t, time) ==
  [ClearPauseTimer(t) EXCEPT !.pauseTimer = time + pauseDuration, !.pending = TRUE,
                             !.scheduled = @ + 1]

\* handleUpdate for an update with docChanged
HandleUpdate(t, newContent, inserted, time) ==
  IF ~t.enabled \/ newContent = t.lastContent
  THEN [tm |-> t, result |-> FALSE, fire |-> FALSE, timerAtCall |-> NoTimer]
  ELSE Let(CheckDoubleEnter(t, inserted, time),
           LAMBDA c :
             IF c.result THEN c
             ELSE [c EXCEPT !.tm = [ResetPauseTimer(c.tm, time)
                                      EXCEPT !.lastContent = newContent]])

\* hasNewContent
HasNewContent(t, currentContent) == currentContent # t.lastContent

\* markProcessed
MarkProcessed(t, content) == [t EXCEPT !.lastContent = content]

\* enable / disable
TMEnable(t) == [t EXCEPT !.enabled = TRUE]

\* Fault variant of disable: the pending pause timer is left running.
TMDisableKeepTimer(t) == [t EXCEPT !.enabled = FALSE]

TMDisable(t) == ClearPauseTimer([t EXCEPT !.enabled = FALSE])

\* destroy
TMDestroy(t) ==
  [ClearPauseTimer(t) EXCEPT !.onPauseTrigger = FALSE,
                             !.onDoubleEnterTrigger = FALSE,
                             !.enabled = FALSE]

----------------------------------------------------------------------------
(* MuseMode (modes/muse.ts) over the editor.                                *)
(*                                                                          *)
(* A handler is an operator from a machine record to a machine record, so   *)
(* that a handler can call another one:                                     *)
(*   doc, cursor, tm, whispers, isGenerating, gens: as the variables;       *)
(*   notice: the Notice shown by the step, "" for none;                     *)
(*   fired: calls of onDoubleEnterTrigger in the step;                      *)
(*   timerAtCall: the pause timer as it was at that call.                   *)
(* A generation (an element of gens) is a suspended handleTrigger call:     *)
(*   pc: "linking" (awaiting getLinkedNotesContent), "streaming" (awaiting  *)
(*       provider.chat);                                                    *)
(*   content, cursorPos, streamedContent: the call's local variables;       *)
(*   sent: chunks delivered so far;                                         *)
(*   phStart, written, intact, edited: history, see below.                  *)
(***************************************************************************)

Machine ==
  [doc |-> doc, cursor |-> cursor, tm |-> tm, whispers |-> whispers,
   isGenerating |-> isGenerating, gens |-> gens,
   notice |-> "", fired |-> 0, timerAtCall |-> NoTimer]

\* History of a generation: where its placeholder is (phStart, -1 before it is
\* inserted), the payload last written into it (written) and whether the span
\* is still as the generation wrote it (intact). A change outside the span
\* moves it; a change that overlaps it ends intact.
TrackChange(g, from, to, insLen) ==
  IF g.phStart < 0 \/ ~g.intact THEN g
  ELSE LET phEnd == g.phStart + Len(MuseInline(g.written))
       IN IF to <= g.phStart THEN [g EXCEPT !.phStart = @ + insLen - (to - from)]
          ELSE IF from >= phEnd THEN g
          ELSE [g EXCEPT !.intact = FALSE,
                         !.deleted = (from <= g.phStart /\ to >= phEnd /\ insLen = 0)]

\* A transaction that changes the document: the whisperState field remaps its
\* entries and the trigger plugin forwards the update to handleEditorUpdate.
DispatchChange(m0, from, to, ins, newCursor) ==
  Let(m0, LAMBDA m :
  Let(ReplaceRange(m.doc, from, to, ins), LAMBDA newDoc :
  Let(HandleUpdate(m.tm, newDoc, ins, now), LAMBDA u :
    [m EXCEPT !.doc = newDoc,
              !.cursor = newCursor,
              !.tm = u.tm,
              !.whispers = RemapWhispers(m.whispers, m.doc, newDoc, from, to, Len(ins)),
              !.gens = [k \in 1..Len(m.gens) |-> TrackChange(m.gens[k], from, to, Len(ins))],
              !.fired = @ + (IF u.fire THEN 1 ELSE 0),
              !.timerAtCall = IF u.fire THEN u.timerAtCall ELSE @])))

\* editor.replaceRange(text, from, to): the cursor is mapped through the change
EditorReplaceRange(m0, text, from, to) ==
  Let(m0, LAMBDA m : DispatchChange(m, from, to, text, MapPos(m.cursor, from, to, Len(text))))

\* editor.offsetToPos(offset) followed by the use of that position
OffsetToPos(d, offset) == IF offset > Len(d) THEN Len(d) ELSE offset

\* handleTrigger, from "Insert placeholder while generating" to the call of
\* provider.chat, for the generation at index i
InsertPlaceholder(m0, i) ==
  Let(m0, LAMBDA m :
  Let(OffsetToPos(m.doc, m.gens[i].cursorPos), LAMBDA pos :
    [EditorReplaceRange(m, PlaceholderInsert, pos, pos)
       EXCEPT !.gens[i].pc = "streaming",
              !.gens[i].phStart = pos + 2,
              !.gens[i].written = <<".", ".", ".">>,
              !.gens[i].intact = TRUE]))

NewGeneration(m) ==
  [pc |-> "linking", content |-> m.doc, cursorPos |-> m.cursor,
   streamedContent |-> <<>>, sent |-> 0,
   phStart |-> -1, written |-> <<>>, intact |-> FALSE, edited |-> FALSE,
   deleted |-> FALSE]

\* Fault variant of handleTrigger: the isGenerating gate is missing.
HandleTriggerUngated(m0) ==
  Let(m0, LAMBDA m :
    IF isInsideEnchantment(m.doc, m.cursor) THEN m
    ELSE IF ~HasNewContent(m.tm, m.doc) THEN m
    ELSE IF ~configured
    THEN [m EXCEPT !.notice = "Please configure your LLM provider in settings"]
    ELSE Let([m EXCEPT !.isGenerating = TRUE, !.gens = Append(@, NewGeneration(m))],
             LAMBDA m1 : IF linkedNotes THEN m1 ELSE InsertPlaceholder(m1, Len(m1.gens))))

\* handleTrigger up to its first await
HandleTrigger(m0) ==
  Let(m0, LAMBDA m :
    IF m.isGenerating THEN m
    ELSE IF isInsideEnchantment(m.doc, m.cursor) THEN m
    ELSE IF ~HasNewContent(m.tm, m.doc) THEN m
    ELSE IF ~configured
    THEN [m EXCEPT !.notice = "Please configure your LLM provider in settings"]
    ELSE Let([m EXCEPT !.isGenerating = TRUE, !.gens = Append(@, NewGeneration(m))],
             LAMBDA m1 : IF linkedNotes THEN m1 ELSE InsertPlaceholder(m1, Len(m1.gens))))

\* Fault variant of onStream: with the detector disabled the chunk is
\* accumulated but the placeholder is not rewritten.
OnStreamGated(m0, i, text) ==
  Let([m0 EXCEPT !.gens[i].streamedContent = @ \o text, !.gens[i].sent = @ + 1],
      LAMBDA m1 :
  Let(StreamMatch(m1.doc), LAMBDA placeholderMatch :
  Let(IndexOf(m1.doc, placeholderMatch), LAMBDA matchStart :
  Let(matchStart + Len(placeholderMatch), LAMBDA matchEnd :
  Let(m1.gens[i], LAMBDA g :
    IF placeholderMatch = <<>> \/ ~m1.tm.enabled THEN m1
    ELSE IF /\ g.intact
            /\ matchStart = g.phStart
            /\ matchEnd = g.phStart + Len(MuseInline(g.written))
    THEN [EditorReplaceRange([m1 EXCEPT !.gens[i].intact = FALSE],
                             MuseInline(g.streamedContent), matchStart, matchEnd)
            EXCEPT !.gens[i].intact = TRUE,
                   !.gens[i].written = g.streamedContent]
    ELSE EditorReplaceRange(m1, MuseInline(g.streamedContent), matchStart, matchEnd))))))

\* the onStream callback of generation i for the chunk text
OnStream(m0, i, text) ==
  Let([m0 EXCEPT !.gens[i].streamedContent = @ \o text, !.gens[i].sent = @ + 1],
      LAMBDA m1 :
  Let(StreamMatch(m1.doc), LAMBDA placeholderMatch :
  Let(IndexOf(m1.doc, placeholderMatch), LAMBDA matchStart :
  Let(matchStart + Len(placeholderMatch), LAMBDA matchEnd :
  Let(m1.gens[i], LAMBDA g :
    IF placeholderMatch = <<>> THEN m1
    ELSE IF /\ g.intact
            /\ matchStart = g.phStart
            /\ matchEnd = g.phStart + Len(MuseInline(g.written))
    THEN [EditorReplaceRange([m1 EXCEPT !.gens[i].intact = FALSE],
                             MuseInline(g.streamedContent), matchStart, matchEnd)
            EXCEPT !.gens[i].intact = TRUE,
                   !.gens[i].written = g.streamedContent]
    ELSE EditorReplaceRange(m1, MuseInline(g.streamedContent), matchStart, matchEnd))))))

\* Fault variant of onComplete: the content is not marked as processed.
OnCompleteUnmarked(m) == m

\* the onComplete callback
OnComplete(m) == [m EXCEPT !.tm = MarkProcessed(m.tm, m.doc)]

RemoveAt(seq, i) == SubSeq(seq, 1, i - 1) \o SubSeq(seq, i + 1, Len(seq))

\* Fault variant of the finally block: the flag is not cleared.
FinallyStuck(m, i) == [m EXCEPT !.gens = RemoveAt(@, i)]

\* the finally block of handleTrigger, which ends generation i
Finally(m, i) == [m EXCEPT !.isGenerating = FALSE, !.gens = RemoveAt(@, i)]

\* the catch block of handleTrigger
Catch(m0) ==
  Let([m0 EXCEPT !.notice = "Muse error"], LAMBDA m1 :
  Let(RetractMatch(m1.doc), LAMBDA placeholderMatch :
  Let(IndexOf(m1.doc, placeholderMatch), LAMBDA matchStart :
    IF placeholderMatch = <<>> THEN m1
    ELSE EditorReplaceRange(m1, <<>>, matchStart, matchStart + Len(placeholderMatch)))))

Commit(m) ==
  /\ doc' = m.doc
  /\ cursor' = m.cursor
  /\ tm' = m.tm
  /\ whispers' = m.whispers
  /\ isGenerating' = m.isGenerating
  /\ gens' = m.gens

----------------------------------------------------------------------------
(* WhisperTriggerManager (detection/triggers.ts) *)

MIN_WHISPER_INTERVAL == 30000
ANALYSIS_INTERVAL == 5000
SIGNIFICANT_CHANGE == 50

\* The manager is a record: enabled, analysisTimer (the due time of the next
\* interval tick, NoTimer for null), lastAnalyzedContent, lastWhisperTime,
\* onAnalyzeTrigger (is the callback set).

\* stopAnalysisLoop
StopAnalysisLoop(w) == [w EXCEPT !.analysisTimer = NoTimer]

\* startAnalysisLoop
StartAnalysisLoop(w, time) ==
  [StopAnalysisLoop(w) EXCEPT !.analysisTimer = time + ANALYSIS_INTERVAL]

\* enable / disable
WTMEnable(w, time) == StartAnalysisLoop([w EXCEPT !.enabled = TRUE], time)

\* Fault variant of disable: the loop is stopped, the flag stays set.
WTMDisableKeepEnabled(w) == StopAnalysisLoop(w)

WTMDisable(w) == StopAnalysisLoop([w EXCEPT !.enabled = FALSE])

\* destroy
WTMDestroy(w) ==
  [StopAnalysisLoop(w) EXCEPT !.onAnalyzeTrigger = FALSE, !.enabled = FALSE]

\* canWhisper
CanWhisper(w, time) == time - w.lastWhisperTime >= MIN_WHISPER_INTERVAL

Abs(x) == IF x < 0 THEN -x ELSE x

\* Fault variant of hasSignificantChange: any difference counts.
HasSignificantChangeAny(w, currentContent) == currentContent # w.lastAnalyzedContent

\* hasSignificantChange
HasSignificantChange(w, currentContent) ==
  IF currentContent = w.lastAnalyzedContent THEN FALSE
  ELSE Abs(Len(currentContent) - Len(w.lastAnalyzedContent)) >= SIGNIFICANT_CHANGE

\* markAnalyzed
MarkAnalyzed(w, content, time) ==
  [w EXCEPT !.lastAnalyzedContent = content, !.lastWhisperTime = time]

----------------------------------------------------------------------------
(* WhisperMode (modes/whisper.ts) *)

MIN_PARAGRAPH == 50
NO_WHISPER == <<"N", "O", "_", "W", "H", "I", "S", "P", "E", "R">>

\* content.split(/\n\n+/): cut at every maximal run of two or more line breaks
RECURSIVE SplitParagraphs(_)
SplitParagraphs(s) ==
  Let(IndexOf(s, <<NL, NL>>), LAMBDA i :
    IF i < 0 THEN <<s>>
    ELSE Let({j \in i..(Len(s) - 1) : s[j + 1] # NL}, LAMBDA rest :
         Let(IF rest = {} THEN Len(s) ELSE Min(rest), LAMBDA j :
           <<Slice(s, 0, i)>> \o SplitParagraphs(Slice(s, j, Len(s))))))

IsSpace(c) == c = " " \/ c = NL \/ c = "\t" \/ c = "\r"

\* String.prototype.trim
Trim(s) ==
  Let({i \in 1..Len(s) : ~IsSpace(s[i])}, LAMBDA keep :
    IF keep = {} THEN <<>> ELSE SubSeq(s, Min(keep), Max(keep)))

\* getCleanContent: the text without its annotations, trimmed
getCleanContent(content) == Trim(removeAllEnchantments(content))

\* is paragraph i a candidate of findParagraphToAnalyze
ValidParagraph(p) ==
  Let(p, LAMBDA para :
    /\ Len(para) > MIN_PARAGRAPH
    /\ ~StartsAt(para, INLINE_MUSE_OPEN, 0)
    /\ ~StartsAt(para, <<":", ":", ":", "m", "u", "s", "e">>, 0)
    /\ ~StartsAt(para, INLINE_WHISPER_OPEN, 0)
    /\ ~StartsAt(para, <<"-", "-", "-">>, 0))

\* Fault variant of findParagraphToAnalyze: when the last valid paragraph was
\* analyzed last, it falls back to the valid paragraph before it.
FindParagraphToAnalyzeOlder(content, lastAnalyzed) ==
  Let(SplitParagraphs(content), LAMBDA paragraphs :
  Let({i \in 0..(Len(paragraphs) - 1) : ValidParagraph(Trim(paragraphs[i + 1]))}
        \ {lastAnalyzed},
      LAMBDA valid : IF valid = {} THEN -1 ELSE Max(valid)))

\* findParagraphToAnalyze: the 0-based index of the last valid paragraph, or -1
\* for null (no valid paragraph, or the last valid one was analyzed last)
FindParagraphToAnalyze(content, lastAnalyzed) ==
  Let(SplitParagraphs(content), LAMBDA paragraphs :
  Let({i \in 0..(Len(paragraphs) - 1) : ValidParagraph(Trim(paragraphs[i + 1]))},
      LAMBDA valid :
        IF valid = {} THEN -1
        ELSE IF Max(valid) # lastAnalyzed THEN Max(valid) ELSE -1))

\* the lines of the first n paragraphs and the blank line after each
RECURSIVE LinesOfParagraphs(_, _)
LinesOfParagraphs(paragraphs, n) ==
  IF n = 0 THEN 0
  ELSE LinesOfParagraphs(paragraphs, n - 1)
       + (BreaksBefore(paragraphs[n], Len(paragraphs[n])) + 1) + 1

\* getLineForParagraph
GetLineForParagraph(content, paragraphIndex) ==
  Let(SplitParagraphs(content), LAMBDA paragraphs :
    1 + LinesOfParagraphs(paragraphs,
                          IF paragraphIndex < Len(paragraphs)
                          THEN paragraphIndex ELSE Len(paragraphs)))

\* A background handler is an operator on a record of what it reads and writes:
\*   wtm, isAnalyzing, lastParagraphAnalyzed, analyses, whispers, fm.
\* An analysis (an element of analyses) is a suspended handleAnalyze call:
\*   pc: "linking" (awaiting getLinkedNotesContent), "generating" (awaiting
\*       provider.generate), "frontmatter" (awaiting setEnchantmentFrontmatter);
\*   content, paragraphToAnalyze, frontmatter: the call's local variables.
Background ==
  [wtm |-> wtm, isAnalyzing |-> isAnalyzing,
   lastParagraphAnalyzed |-> lastParagraphAnalyzed, analyses |-> analyses,
   whispers |-> whispers, fm |-> fm]

\* Fault variant of handleAnalyze: the isAnalyzing gate is missing.
HandleAnalyzeUngated(b, content) ==
  IF ~b.fm.enabled THEN b
  ELSE IF ~HasSignificantChange(b.wtm, content) THEN b
  ELSE IF ~configured THEN b
  ELSE Let(FindParagraphToAnalyze(content, b.lastParagraphAnalyzed),
           LAMBDA paragraphToAnalyze :
             IF paragraphToAnalyze < 0 THEN b
             ELSE [b EXCEPT !.isAnalyzing = TRUE,
                            !.analyses = Append(@,
                               [pc |-> IF linkedNotes THEN "linking" ELSE "generating",
                                content |-> content,
                                paragraphToAnalyze |-> paragraphToAnalyze,
                                frontmatter |-> b.fm,
                                before |-> [whispers |-> b.whispers,
                                            lastParagraphAnalyzed |-> b.lastParagraphAnalyzed,
                                            lastAnalyzedContent |-> b.wtm.lastAnalyzedContent,
                                            lastWhisperTime |-> b.wtm.lastWhisperTime]])])

\* handleAnalyze up to its first await
HandleAnalyze(b, content) ==
  IF b.isAnalyzing THEN b
  ELSE IF ~b.fm.enabled THEN b
  ELSE IF ~HasSignificantChange(b.wtm, content) THEN b
  ELSE IF ~configured THEN b
  ELSE Let(FindParagraphToAnalyze(content, b.lastParagraphAnalyzed),
           LAMBDA paragraphToAnalyze :
             IF paragraphToAnalyze < 0 THEN b
             ELSE [b EXCEPT !.isAnalyzing = TRUE,
                            !.analyses = Append(@,
                               [pc |-> IF linkedNotes THEN "linking" ELSE "generating",
                                content |-> content,
                                paragraphToAnalyze |-> paragraphToAnalyze,
                                frontmatter |-> b.fm,
                                before |-> [whispers |-> b.whispers,
                                            lastParagraphAnalyzed |-> b.lastParagraphAnalyzed,
                                            lastAnalyzedContent |-> b.wtm.lastAnalyzedContent,
                                            lastWhisperTime |-> b.wtm.lastWhisperTime]])])

\* the finally block of handleAnalyze, which ends analysis i
AnalyzeFinally(b, i) == [b EXCEPT !.isAnalyzing = FALSE, !.analyses = RemoveAt(@, i)]

\* whisper && whisper !== 'NO_WHISPER' && !whisper.includes('NO_WHISPER')
Useful(whisper) ==
  whisper # <<>> /\ whisper # NO_WHISPER /\ IndexOf(whisper, NO_WHISPER) < 0

\* handleAnalyze from the return of provider.generate to the next await or the end
AfterGenerate(b, i, whisper, time) ==
  Let(b.analyses[i], LAMBDA a :
  Let(Useful(whisper), LAMBDA useful :
  Let(IF useful
      THEN [b EXCEPT !.whispers = AddWhisperEffect(@, GetLineForParagraph(a.content,
                                                        a.paragraphToAnalyze), whisper),
                     !.lastParagraphAnalyzed = a.paragraphToAnalyze]
      ELSE b,
      LAMBDA b1 :
        IF useful /\ ~a.frontmatter.hasFirstResponse
        THEN [b1 EXCEPT !.analyses[i].pc = "frontmatter"]
        ELSE AnalyzeFinally([b1 EXCEPT !.wtm = MarkAnalyzed(@, a.content, time)], i))))

\* handleAnalyze from the return of setEnchantmentFrontmatter to the end
AfterFrontmatter(b, i, time) ==
  AnalyzeFinally([b EXCEPT !.fm.hasFirstResponse = TRUE,
                           !.wtm = MarkAnalyzed(@, b.analyses[i].content, time)], i)

CommitBackground(b) ==
  /\ wtm' = b.wtm
  /\ isAnalyzing' = b.isAnalyzing
  /\ lastParagraphAnalyzed' = b.lastParagraphAnalyzed
  /\ analyses' = b.analyses
  /\ whispers' = b.whispers
  /\ fm' = b.fm

----------------------------------------------------------------------------
(* Context detection (detection/context.ts, utils/frontmatter.ts).  A       *)
(* frontmatter value, a path segment and a word of the content are strings, *)
(* "" standing for an absent (falsy) value; content is a sequence of words. *)

\* String.prototype.toLowerCase on the words the inputs are drawn from
toLowerCase(w) ==
  CASE w = "Think" -> "think"
    [] w = "Whisper" -> "whisper"
    [] w = "Journal" -> "journal"
    [] w = "Projects" -> "projects"
    [] OTHER -> w

\* getEnchantmentFrontmatter: style, mood and type of the frontmatter cache
getEnchantmentFrontmatter(raw) ==
  [style |-> IF raw.style # "" /\ toLowerCase(raw.style) \in {"muse", "whisper"}
             THEN toLowerCase(raw.style) ELSE "",
   mood |-> IF raw.mood # "" /\ toLowerCase(raw.mood) \in {"reflect", "think", "plan"}
            THEN toLowerCase(raw.mood) ELSE "",
   type |-> IF raw.type # "" THEN toLowerCase(raw.type) ELSE ""]

typeMap ==
  [journal |-> "reflect", diary |-> "reflect", reflection |-> "reflect",
   essay |-> "think", writing |-> "think", article |-> "think", idea |-> "think",
   ideas |-> "think", project |-> "plan", todo |-> "plan", task |-> "plan",
   tasks |-> "plan", plan |-> "plan", planning |-> "plan"]

\* inferMoodFromType: typeMap[type.toLowerCase()] || null
inferMoodFromType(type) ==
  Let(toLowerCase(type), LAMBDA t : IF t \in DOMAIN typeMap THEN typeMap[t] ELSE "")

FOLDER_MOOD_PATTERNS ==
  [journal |-> "reflect", journals |-> "reflect", diary |-> "reflect",
   diaries |-> "reflect", reflection |-> "reflect", reflections |-> "reflect",
   project |-> "plan", projects |-> "plan", todo |-> "plan", todos |-> "plan",
   task |-> "plan", tasks |-> "plan", planning |-> "plan",
   essay |-> "think", essays |-> "think", writing |-> "think", writings |-> "think",
   idea |-> "think", ideas |-> "think", article |-> "think", articles |-> "think"]

\* detectMoodFromFolder: the mood of the first path part that is a key
detectMoodFromFolder(filePath) ==
  Let({k \in 1..Len(filePath) : toLowerCase(filePath[k]) \in DOMAIN FOLDER_MOOD_PATTERNS},
      LAMBDA hits : IF hits = {} THEN ""
                    ELSE FOLDER_MOOD_PATTERNS[toLowerCase(filePath[Min(hits)])])

\* CONTENT_PATTERNS as word sequences.  detectMoodFromContent rebuilds every
\* pattern with new RegExp(pattern, 'g'), which replaces its flags: the match
\* is case-sensitive and ^ (atStart) matches at the start of the content only.
Pattern(words, mood, atStart) == [pattern |-> words, mood |-> mood, atStart |-> atStart]

CONTENT_PATTERNS ==
  << Pattern(<<"I", "feel">>, "reflect", FALSE),
     Pattern(<<"I", "felt">>, "reflect", FALSE),
     Pattern(<<"Today", "I">>, "reflect", FALSE),
     Pattern(<<"I'm", "feeling">>, "reflect", FALSE),
     Pattern(<<"I've", "been", "feeling">>, "reflect", FALSE),
     Pattern(<<"I", "noticed">>, "reflect", FALSE),
     Pattern(<<"I'm", "grateful">>, "reflect", FALSE),
     Pattern(<<"I'm", "struggling">>, "reflect", FALSE),
     Pattern(<<"-", "[ ]">>, "plan", TRUE),
     Pattern(<<"-", "[x]">>, "plan", TRUE),
     Pattern(<<"TODO">>, "plan", FALSE),
     Pattern(<<"next", "steps">>, "plan", FALSE),
     Pattern(<<"action", "items">>, "plan", FALSE),
     Pattern(<<"deadline">>, "plan", FALSE),
     Pattern(<<"the", "argument", "is">>, "think", FALSE),
     Pattern(<<"my", "thesis">>, "think", FALSE),
     Pattern(<<"I", "argue">>, "think", FALSE),
     Pattern(<<"I", "believe">>, "think", FALSE),
     Pattern(<<"the", "evidence">>, "think", FALSE),
     Pattern(<<"the", "reason">>, "think", FALSE),
     Pattern(<<"in", "conclusion">>, "think", FALSE),
     Pattern(<<"furthermore">>, "think", FALSE),
     Pattern(<<"however">>, "think", FALSE) >>

\* content.match(new RegExp(pattern, 'g')): the number of matches
MatchCount(content, p) ==
  Cardinality({i \in 0..(IF p.atStart THEN 0 ELSE Len(content)) :
                 StartsAt(content, p.pattern, i)})

\* moodCounts after the first k patterns
RECURSIVE MoodCounts(_, _)
MoodCounts(content, k) ==
  IF k = 0 THEN [reflect |-> 0, think |-> 0, plan |-> 0]
  ELSE Let(MoodCounts(content, k - 1), LAMBDA counts :
         [counts EXCEPT ![CONTENT_PATTERNS[k].mood] =
                           @ + MatchCount(content, CONTENT_PATTERNS[k])])

\* Object.entries(moodCounts): the keys in insertion order
MoodOrder == <<"reflect", "think", "plan">>

\* the loop over the entries from the k-th on: [maxMood, maxCount]
RECURSIVE MaxEntry(_, _, _)
MaxEntry(counts, k, max) ==
  IF k > Len(MoodOrder) THEN max
  ELSE MaxEntry(counts, k + 1,
                IF counts[MoodOrder[k]] > max.maxCount
                THEN [maxMood |-> MoodOrder[k], maxCount |-> counts[MoodOrder[k]]]
                ELSE max)

\* detectMoodFromContent
detectMoodFromContent(content) ==
  Let(MaxEntry(MoodCounts(content, Len(CONTENT_PATTERNS)), 1,
               [maxMood |-> "", maxCount |-> 0]),
      LAMBDA max : IF max.maxCount >= 2 THEN max.maxMood ELSE "")

\* frontmatter.style || (settings.defaultStyle === 'off' ? 'muse' : settings.defaultStyle)
StyleOr(frontmatter, settings) ==
  IF frontmatter.style # "" THEN frontmatter.style
  ELSE IF settings.defaultStyle = "off" THEN "muse" ELSE settings.defaultStyle

\* Fault variant of detectContext: the folder is consulted before the type tag.
detectContextFolderFirst(raw, filePath, content, settings) ==
  Let(getEnchantmentFrontmatter(raw), LAMBDA frontmatter :
    IF frontmatter.mood # ""
    THEN [mood |-> frontmatter.mood, style |-> StyleOr(frontmatter, settings),
          source |-> "frontmatter"]
    ELSE IF detectMoodFromFolder(filePath) # ""
    THEN [mood |-> detectMoodFromFolder(filePath),
          style |-> StyleOr(frontmatter, settings), source |-> "folder"]
    ELSE IF frontmatter.type # "" /\ inferMoodFromType(frontmatter.type) # ""
    THEN [mood |-> inferMoodFromType(frontmatter.type),
          style |-> StyleOr(frontmatter, settings), source |-> "frontmatter"]
    ELSE IF detectMoodFromContent(content) # ""
    THEN [mood |-> detectMoodFromContent(content),
          style |-> StyleOr(frontmatter, settings), source |-> "content"]
    ELSE [mood |-> IF settings.defaultMood = "auto" THEN "reflect"
                   ELSE settings.defaultMood,
          style |-> IF settings.defaultStyle = "off" THEN "muse"
                    ELSE settings.defaultStyle,
          source |-> "default"])

\* detectContext(app, file, content, settings), frontmatter being the cache of file
detectContext(raw, filePath, content, settings) ==
  Let(getEnchantmentFrontmatter(raw), LAMBDA frontmatter :
    IF frontmatter.mood # ""
    THEN [mood |-> frontmatter.mood, style |-> StyleOr(frontmatter, settings),
          source |-> "frontmatter"]
    ELSE IF frontmatter.type # "" /\ inferMoodFromType(frontmatter.type) # ""
    THEN [mood |-> inferMoodFromType(frontmatter.type),
          style |-> StyleOr(frontmatter, settings), source |-> "frontmatter"]
    ELSE IF detectMoodFromFolder(filePath) # ""
    THEN [mood |-> detectMoodFromFolder(filePath),
          style |-> StyleOr(frontmatter, settings), source |-> "folder"]
    ELSE IF detectMoodFromContent(content) # ""
    THEN [mood |-> detectMoodFromContent(content),
          style |-> StyleOr(frontmatter, settings), source |-> "content"]
    ELSE [mood |-> IF settings.defaultMood = "auto" THEN "reflect"
                   ELSE settings.defaultMood,
          style |-> IF settings.defaultStyle = "off" THEN "muse"
                    ELSE settings.defaultStyle,
          source |-> "default"])

\* MuseMode.handleTrigger: the mood of the context handed to the backend
MuseMood(currentMood, raw, filePath, content, settings) ==
  Let(detectContext(raw, filePath, content, settings), LAMBDA detectedContext :
    IF currentMood # "auto" THEN currentMood ELSE detectedContext.mood)

\* WhisperMode.handleAnalyze: the mood of the context handed to the backend
WhisperMood(currentMood, raw) ==
  Let(getEnchantmentFrontmatter(raw), LAMBDA frontmatter :
  Let(IF frontmatter.mood # "" THEN frontmatter.mood ELSE "reflect", LAMBDA mood :
    IF currentMood # "auto" THEN currentMood ELSE mood))

-----------------------------------------------------------------------------
(* Steps of the interactive path *)

wvars == <<wtm, isAnalyzing, lastParagraphAnalyzed, analyses, fm>>
ivars == <<doc, cursor, tm, isGenerating, gens>>
fixed == <<configured, linkedNotes, input>>
env == <<fixed, lastAdded>>

\* the history of a step no claim asks about
Other == [op |-> "other"]

\* what a step that may call handleTrigger did, for the history variable
TriggerOutcome(op, m) ==
  [op |-> op,
   busy |-> isGenerating,
   inside |-> isInsideEnchantment(doc, cursor),
   enabled |-> tm.enabled,
   fresh |-> HasNewContent(tm, doc),
   started |-> Len(m.gens) > Len(gens),
   wrote |-> m.doc # doc,
   notice |-> m.notice]

\* The user replaces [from, to) by ins (typing, Enter, Backspace, deleting a
\* selection); the cursor ends after the inserted text.
UserEdit(from, to, ins) ==
  /\ edits < MaxEdits
  /\ 0 <= from /\ from <= to /\ to <= Len(doc)
  /\ from < to \/ ins # <<>>
  /\ \E m0 \in {[Machine EXCEPT
                   !.gens = [k \in 1..Len(gens) |-> [gens[k] EXCEPT !.edited = TRUE]]]} :
     \E m1 \in {DispatchChange(m0, from, to, ins, from + Len(ins))} :
     \E m2 \in {IF m1.fired > 0 THEN HandleTrigger(m1) ELSE m1} :
     \E seen \in {tm.enabled /\ m1.doc # tm.lastContent} :
        /\ Commit(m2)
        /\ prevNewline' = IF ins = <<NL>>
                          THEN [at |-> now, seen |-> seen, fired |-> m1.fired > 0]
                          ELSE prevNewline
        /\ last' = [op |-> "edit",
                    from |-> from, to |-> to, ins |-> ins,
                    newline |-> ins = <<NL>>,
                    seen |-> seen,
                    prev |-> prevNewline,
                    fired |-> m1.fired,
                    timerAtCall |-> m1.timerAtCall,
                    busy |-> isGenerating,
                    inside |-> isInsideEnchantment(m1.doc, m1.cursor),
                    started |-> Len(m2.gens) > Len(gens),
                    wrote |-> m2.doc # m1.doc,
                    notice |-> m2.notice]
  /\ edits' = edits + 1
  /\ quiet' = FALSE
  /\ UNCHANGED <<now, env, commands, ticks>>
  /\ UNCHANGED wvars

\* The pause duration elapses and the setTimeout callback of resetPauseTimer
\* runs; an interval tick that is due earlier runs first.
PauseFire ==
  /\ tm.pending
  /\ (wtm.analysisTimer # NoTimer /\ ticks < MaxTicks) => tm.pauseTimer <= wtm.analysisTimer
  /\ \E m0 \in {[Machine EXCEPT !.tm.pending = FALSE, !.tm.scheduled = @ - 1]} :
     \E m1 \in {IF tm.enabled /\ tm.onPauseTrigger THEN HandleTrigger(m0) ELSE m0} :
        /\ Commit(m1)
        /\ last' = TriggerOutcome("pause", m1)
  /\ now' = IF now < tm.pauseTimer THEN tm.pauseTimer ELSE now
  /\ UNCHANGED <<env, edits, commands, ticks, prevNewline, quiet>>
  /\ UNCHANGED wvars

\* The user selects the placeholder of generation i, as it reads now, and
\* deletes it.
DeletePlaceholder(i) ==
  /\ gens[i].pc = "streaming"
  /\ gens[i].intact
  /\ UserEdit(gens[i].phStart, gens[i].phStart + Len(MuseInline(gens[i].written)), <<>>)

\* MuseMode.summon
Summon ==
  /\ commands < MaxCommands
  /\ tm.onPauseTrigger
  /\ \E m1 \in {HandleTrigger(Machine)} :
        /\ Commit(m1)
        /\ last' = TriggerOutcome("summon", m1)
  /\ commands' = commands + 1
  /\ UNCHANGED <<now, env, edits, ticks, prevNewline, quiet>>
  /\ UNCHANGED wvars

\* getLinkedNotesContent resolves: handleTrigger goes on to provider.chat
LinkedDone(i) ==
  /\ i \in 1..Len(gens)
  /\ gens[i].pc = "linking"
  /\ \E m1 \in {InsertPlaceholder(Machine, i)} : Commit(m1)
  /\ last' = Other
  /\ UNCHANGED <<now, env, edits, commands, ticks, prevNewline, quiet>>
  /\ UNCHANGED wvars

\* what the end of a generation did, for the history variable
EndOutcome(op, g, m) ==
  [op |-> op, pre |-> g.content, edited |-> g.edited, sent |-> g.sent,
   others |-> Len(gens) - 1, notice |-> m.notice]

\* getLinkedNotesContent rejects: catch, finally
LinkedFail(i) ==
  /\ i \in 1..Len(gens)
  /\ gens[i].pc = "linking"
  /\ \E m1 \in {Finally(Catch(Machine), i)} :
        /\ Commit(m1)
        /\ last' = EndOutcome("linkfail", gens[i], m1)
  /\ UNCHANGED <<now, env, edits, commands, ticks, prevNewline, quiet>>
  /\ UNCHANGED wvars

\* The backend delivers a chunk: onStream(text)
StreamChunk(i, text) ==
  /\ i \in 1..Len(gens)
  /\ gens[i].pc = "streaming"
  /\ gens[i].sent < MaxChunks
  /\ \E m1 \in {OnStream(Machine, i, text)} :
        /\ Commit(m1)
        /\ last' = [op |-> "chunk", i |-> i, enabled |-> tm.enabled,
                    wrote |-> m1.doc # doc]
  /\ UNCHANGED <<now, env, edits, commands, ticks, prevNewline, quiet>>
  /\ UNCHANGED wvars

\* The stream ends: onComplete(fullText), provider.chat resolves, finally
StreamComplete(i) ==
  /\ i \in 1..Len(gens)
  /\ gens[i].pc = "streaming"
  /\ \E m1 \in {Finally(OnComplete(Machine), i)} :
        /\ Commit(m1)
        /\ last' = EndOutcome("complete", gens[i], m1)
  /\ quiet' = TRUE
  /\ UNCHANGED <<now, env, edits, commands, ticks, prevNewline>>
  /\ UNCHANGED wvars

\* provider.chat rejects: catch, finally
StreamFail(i) ==
  /\ i \in 1..Len(gens)
  /\ gens[i].pc = "streaming"
  /\ \E m1 \in {Finally(Catch(Machine), i)} :
        /\ Commit(m1)
        /\ last' = EndOutcome("fail", gens[i], m1)
  /\ UNCHANGED <<now, env, edits, commands, ticks, prevNewline, quiet>>
  /\ UNCHANGED wvars

\* the due times of the timers the host holds
DueTimes == (IF tm.pending THEN {tm.pauseTimer} ELSE {})
            \cup (IF wtm.analysisTimer # NoTimer THEN {wtm.analysisTimer} ELSE {})

\* Time passes, by d, up to the next timer that is due
Advance(d) ==
  /\ now + d <= StartTime + MaxElapsed
  /\ \A t \in DueTimes : now + d <= t
  /\ now' = now + d
  /\ last' = Other
  /\ UNCHANGED <<env, whispers, edits, commands, ticks, prevNewline, quiet>>
  /\ UNCHANGED ivars
  /\ UNCHANGED wvars

----------------------------------------------------------------------------
(* The commands (commands.ts, registerCommands) *)

\* MuseMode.toggle
MuseToggle(t) == IF t.enabled THEN TMDisable(t) ELSE TMEnable(t)

\* WhisperMode.toggle
WhisperToggle(w, time) == IF w.enabled THEN WTMDisable(w) ELSE WTMEnable(w, time)

\* toggle-muse: enabling Muse disables Whisper first
ToggleMuse ==
  /\ commands < MaxCommands
  /\ tm.onPauseTrigger
  /\ commands' = commands + 1
  /\ wtm' = IF ~tm.enabled /\ wtm.enabled THEN WTMDisable(wtm) ELSE wtm
  /\ tm' = MuseToggle(tm)
  /\ last' = [op |-> "toggleMuse", wasEnabled |-> tm.enabled, wasPending |-> tm.pending,
              wasWhisper |-> wtm.enabled]
  /\ UNCHANGED <<doc, cursor, isGenerating, gens, whispers, now, env,
                 isAnalyzing, lastParagraphAnalyzed, analyses, fm,
                 edits, ticks, prevNewline, quiet>>

\* onunload: both modes are destroyed.  The host removes the plugin's commands
\* with it, so a command runs only while the callbacks are still set.
Unload ==
  /\ commands < MaxCommands
  /\ tm.onPauseTrigger
  /\ commands' = commands + 1
  /\ tm' = TMDestroy(tm)
  /\ wtm' = WTMDestroy(wtm)
  /\ last' = [op |-> "unload", wasEnabled |-> tm.enabled, wasPending |-> tm.pending]
  /\ UNCHANGED <<doc, cursor, isGenerating, gens, whispers, now, env,
                 isAnalyzing, lastParagraphAnalyzed, analyses, fm,
                 edits, ticks, prevNewline, quiet>>

\* toggle-whisper: enabling Whisper disables Muse first
ToggleWhisper ==
  /\ commands < MaxCommands
  /\ tm.onPauseTrigger
  /\ commands' = commands + 1
  /\ tm' = IF ~wtm.enabled /\ tm.enabled THEN TMDisable(tm) ELSE tm
  /\ wtm' = WhisperToggle(wtm, now)
  /\ last' = Other
  /\ UNCHANGED <<doc, cursor, isGenerating, gens, whispers, now, env,
                 isAnalyzing, lastParagraphAnalyzed, analyses, fm,
                 edits, ticks, prevNewline, quiet>>

----------------------------------------------------------------------------
(* Steps of the background path *)

bghist == <<env, edits, commands, prevNewline, quiet>>

\* The setInterval callback of startAnalysisLoop runs; a pause timer that is
\* due earlier runs first.
Tick ==
  /\ wtm.analysisTimer # NoTimer
  /\ ticks < MaxTicks
  /\ tm.pending => wtm.analysisTimer <= tm.pauseTimer
  /\ \E time \in {IF now < wtm.analysisTimer THEN wtm.analysisTimer ELSE now} :
     \E b0 \in {[Background EXCEPT !.wtm.analysisTimer = @ + ANALYSIS_INTERVAL]} :
     \E b1 \in {IF wtm.enabled /\ CanWhisper(wtm, time) /\ wtm.onAnalyzeTrigger
                THEN HandleAnalyze(b0, doc) ELSE b0} :
        /\ CommitBackground(b1)
        /\ now' = time
        /\ last' = [op |-> "tick", busy |-> isAnalyzing,
                    called |-> wtm.enabled /\ CanWhisper(wtm, time),
                    selecting |-> /\ wtm.enabled /\ CanWhisper(wtm, time)
                                  /\ ~isAnalyzing /\ fm.enabled /\ configured
                                  /\ HasSignificantChange(wtm, doc),
                    latest |-> FindParagraphToAnalyze(doc, -1),
                    analyzed |-> lastParagraphAnalyzed,
                    since |-> time - wtm.lastWhisperTime,
                    started |-> Len(b1.analyses) > Len(analyses)]
  /\ ticks' = ticks + 1
  /\ UNCHANGED ivars
  /\ UNCHANGED bghist

\* getLinkedNotesContent resolves: handleAnalyze goes on to provider.generate
AnalysisLinkedDone(i) ==
  /\ i \in 1..Len(analyses)
  /\ analyses[i].pc = "linking"
  /\ analyses' = [analyses EXCEPT ![i].pc = "generating"]
  /\ last' = Other
  /\ UNCHANGED <<wtm, isAnalyzing, lastParagraphAnalyzed, whispers, fm, now, ticks>>
  /\ UNCHANGED ivars
  /\ UNCHANGED bghist

\* an await of handleAnalyze rejects: catch, finally
AnalysisFail(i) ==
  /\ i \in 1..Len(analyses)
  /\ \E b1 \in {AnalyzeFinally(Background, i)} : CommitBackground(b1)
  /\ last' = [op |-> "analysisfail", pc |-> analyses[i].pc, before |-> analyses[i].before]
  /\ UNCHANGED <<now, ticks>>
  /\ UNCHANGED ivars
  /\ UNCHANGED bghist

\* provider.generate resolves with the text whisper
GenerateDone(i, whisper) ==
  /\ i \in 1..Len(analyses)
  /\ analyses[i].pc = "generating"
  /\ \E b1 \in {AfterGenerate(Background, i, whisper, now)} : CommitBackground(b1)
  /\ last' = [op |-> "generated",
              added |-> Useful(whisper),
              prevAdded |-> lastAdded]
  /\ lastAdded' = IF Useful(whisper) THEN now ELSE lastAdded
  /\ UNCHANGED <<now, ticks>>
  /\ UNCHANGED ivars
  /\ UNCHANGED <<fixed, edits, commands, prevNewline, quiet>>

\* setEnchantmentFrontmatter resolves
FrontmatterDone(i) ==
  /\ i \in 1..Len(analyses)
  /\ analyses[i].pc = "frontmatter"
  /\ \E b1 \in {AfterFrontmatter(Background, i, now)} : CommitBackground(b1)
  /\ last' = Other
  /\ UNCHANGED <<now, ticks>>
  /\ UNCHANGED ivars
  /\ UNCHANGED bghist

----------------------------------------------------------------------------
(* Steps on the whisper index alone *)

idxfixed == <<doc, cursor, tm, isGenerating, gens, now, env, edits, commands, ticks,
              prevNewline, quiet>>

\* addWhisper(view, line, content)
AddWhisper(line, content) ==
  /\ whispers' = AddWhisperEffect(whispers, line, content)
  /\ last' = [op |-> "add", line |-> line, content |-> content,
              had |-> \E k \in 1..Len(whispers) : whispers[k].line = line]
  /\ UNCHANGED idxfixed
  /\ UNCHANGED wvars

\* removeWhisper(view, line)
RemoveWhisper(line) ==
  /\ whispers' = RemoveWhisperEffect(whispers, line)
  /\ last' = [op |-> "remove", line |-> line,
              had |-> \E k \in 1..Len(whispers) : whispers[k].line = line]
  /\ UNCHANGED idxfixed
  /\ UNCHANGED wvars

\* clearAllWhispers(view)
ClearAllWhispers ==
  /\ whispers' = ClearWhispersEffect(whispers)
  /\ last' = [op |-> "clear"]
  /\ UNCHANGED idxfixed
  /\ UNCHANGED wvars

----------------------------------------------------------------------------
(* Initial states *)

InitTM(on) ==
  [enabled |-> on, lastContent |-> <<>>, lastEnterTime |-> 0, pauseTimer |-> NoTimer,
   onPauseTrigger |-> TRUE, onDoubleEnterTrigger |-> TRUE, pending |-> FALSE,
   scheduled |-> 0]

InitWTM ==
  [enabled |-> FALSE, analysisTimer |-> NoTimer, lastAnalyzedContent |-> <<>>,
   lastWhisperTime |-> 0, onAnalyzeTrigger |-> TRUE]

\* the plugin after onload with the default style, on the note d
Loaded(d, defaultStyle) ==
  /\ doc = d
  /\ cursor = Len(d)
  /\ now = StartTime
  /\ tm = InitTM(defaultStyle = "muse")
  /\ wtm = IF defaultStyle = "whisper" THEN WTMEnable(InitWTM, StartTime) ELSE InitWTM
  /\ isGenerating = FALSE
  /\ gens = <<>>
  /\ whispers = <<>>
  /\ isAnalyzing = FALSE
  /\ lastParagraphAnalyzed = -1
  /\ analyses = <<>>
  /\ edits = 0
  /\ commands = 0
  /\ ticks = 0
  /\ prevNewline = [at |-> 0, seen |-> FALSE, fired |-> FALSE]
  /\ quiet = FALSE
  /\ lastAdded = 0
  /\ last = [op |-> "init"]

----------------------------------------------------------------------------
(* The interactive path: triggers, streaming, commit and retraction.  The   *)
(* note starts plain or with an annotation; the detector is on (default     *)
(* style muse) or off (any other style).                                    *)

InitDocs == {<<"h">>, <<"h">> \o MuseInline(<<"x">>)}
ChunkTexts == {<<"o">>, <<"]">>}
Styles == {"muse", "none"}

Init ==
  /\ \E d \in InitDocs, st \in Styles : Loaded(d, st)
  /\ configured \in BOOLEAN
  /\ linkedNotes \in BOOLEAN
  /\ fm = [enabled |-> FALSE, hasFirstResponse |-> FALSE]
  /\ input = <<>>

Next ==
  \/ UserEdit(Len(doc), Len(doc), <<NL>>)
  \/ UserEdit(0, 0, <<"a">>)
  \/ \E i \in 1..Len(gens) : DeletePlaceholder(i)
  \/ PauseFire
  \/ Summon
  \/ \E i \in 1..Len(gens) : LinkedDone(i)
  \/ \E i \in 1..Len(gens) : LinkedFail(i)
  \/ \E i \in 1..Len(gens), text \in ChunkTexts : StreamChunk(i, text)
  \/ \E i \in 1..Len(gens) : StreamComplete(i)
  \/ \E i \in 1..Len(gens) : StreamFail(i)

Spec == Init /\ [][Next]_vars

----------------------------------------------------------------------------
(* The trigger detector under time: edits with measured gaps, the pause     *)
(* timer, and the toggle command.                                           *)

Deltas == {250, 300}

InitTrigger ==
  /\ \E st \in Styles : Loaded(<<"h">>, st)
  /\ configured \in BOOLEAN
  /\ linkedNotes = FALSE
  /\ fm = [enabled |-> FALSE, hasFirstResponse |-> FALSE]
  /\ input = <<>>

NextTrigger ==
  \/ UserEdit(Len(doc), Len(doc), <<NL>>)
  \/ UserEdit(0, 0, <<"a">>)
  \/ \E d \in Deltas : Advance(d)
  \/ PauseFire
  \/ ToggleMuse
  \/ Unload
  \/ \E i \in 1..Len(gens) : StreamChunk(i, <<"o">>)
  \/ \E i \in 1..Len(gens) : StreamComplete(i)
  \/ \E i \in 1..Len(gens) : StreamFail(i)

SpecTrigger == InitTrigger /\ [][NextTrigger]_vars

-----------------------------------------------------------------------------
(* Up to MaxToggles mode commands from plugin load under each default style, *)
(* with the detector's and the scanner's timers, backend not configured.    *)

MaxToggles == 3

InitModes ==
  /\ \E st \in {"muse", "whisper", "none"} :
       /\ tm = InitTM(st = "muse")
       /\ wtm = IF st = "whisper" THEN WTMEnable(InitWTM, StartTime) ELSE InitWTM
  /\ doc = <<"h">>
  /\ cursor = 1
  /\ now = StartTime
  /\ isGenerating = FALSE
  /\ gens = <<>>
  /\ whispers = <<>>
  /\ isAnalyzing = FALSE
  /\ lastParagraphAnalyzed = -1
  /\ analyses = <<>>
  /\ edits = 0
  /\ commands = MaxCommands - MaxToggles
  /\ ticks = 0
  /\ prevNewline = [at |-> 0, seen |-> FALSE, fired |-> FALSE]
  /\ quiet = FALSE
  /\ lastAdded = 0
  /\ last = [op |-> "init"]
  /\ configured = FALSE
  /\ linkedNotes = FALSE
  /\ fm = [enabled |-> TRUE, hasFirstResponse |-> FALSE]
  /\ input = <<>>

NextModes ==
  \/ ToggleMuse
  \/ ToggleWhisper
  \/ UserEdit(Len(doc), Len(doc), <<NL>>)
  \/ PauseFire
  \/ Tick

SpecModes == InitModes /\ [][NextModes]_vars

-----------------------------------------------------------------------------
(* A run of up to MaxEnters presses of Enter at the end of the note, 0, 250  *)
(* or 300 ms apart, with the generations they start.                        *)

MaxEnters == 4

InitEnters ==
  /\ doc = <<"h">>
  /\ cursor = 1
  /\ now = StartTime
  /\ tm = InitTM(TRUE)
  /\ wtm = InitWTM
  /\ isGenerating = FALSE
  /\ gens = <<>>
  /\ whispers = <<>>
  /\ isAnalyzing = FALSE
  /\ lastParagraphAnalyzed = -1
  /\ analyses = <<>>
  /\ edits = MaxEdits - MaxEnters
  /\ commands = 0
  /\ ticks = 0
  /\ prevNewline = [at |-> 0, seen |-> FALSE, fired |-> FALSE]
  /\ quiet = FALSE
  /\ lastAdded = 0
  /\ last = [op |-> "init"]
  /\ configured \in BOOLEAN
  /\ linkedNotes = FALSE
  /\ fm = [enabled |-> FALSE, hasFirstResponse |-> FALSE]
  /\ input = <<>>

NextEnters ==
  \/ UserEdit(Len(doc), Len(doc), <<NL>>)
  \/ \E d \in Deltas : Advance(d)
  \/ \E i \in 1..Len(gens) : StreamChunk(i, <<"o">>)
  \/ \E i \in 1..Len(gens) : StreamComplete(i)

SpecEnters == InitEnters /\ [][NextEnters]_vars

----------------------------------------------------------------------------
(* Both paths on one note with a paragraph long enough to be analyzed.      *)

LongParagraph == Chars(MIN_PARAGRAPH + 1, "p")
WhisperTexts == {<<"w">>, NO_WHISPER}

InitConc ==
  /\ \E st \in {"muse", "whisper"} : Loaded(LongParagraph, st)
  /\ configured \in BOOLEAN
  /\ linkedNotes \in BOOLEAN
  /\ fm \in {[enabled |-> TRUE, hasFirstResponse |-> h] : h \in BOOLEAN}
  /\ input = <<>>

NextConc ==
  \/ UserEdit(Len(doc), Len(doc), <<NL>>)
  \/ PauseFire
  \/ Summon
  \/ ToggleMuse
  \/ ToggleWhisper
  \/ Tick
  \/ \E i \in 1..Len(gens) : LinkedDone(i)
  \/ \E i \in 1..Len(gens) : LinkedFail(i)
  \/ \E i \in 1..Len(gens) : StreamChunk(i, <<"o">>)
  \/ \E i \in 1..Len(gens) : StreamComplete(i)
  \/ \E i \in 1..Len(gens) : StreamFail(i)
  \/ \E i \in 1..Len(analyses) : AnalysisLinkedDone(i)
  \/ \E i \in 1..Len(analyses) : AnalysisFail(i)
  \/ \E i \in 1..Len(analyses), w \in WhisperTexts : GenerateDone(i, w)
  \/ \E i \in 1..Len(analyses) : FrontmatterDone(i)

SpecConc == InitConc /\ [][NextConc]_vars

----------------------------------------------------------------------------
(* The background scanner alone: interval ticks, analyses that end with an  *)
(* annotation, with NO_WHISPER or with a failure, and the user opening      *)
(* lines at the top of a note of one or two long paragraphs.                *)

ScanDocs == {LongParagraph, LongParagraph \o <<NL, NL>> \o LongParagraph,
             MULTILINE_WHISPER_OPEN \o LongParagraph \o MULTILINE_CLOSE}

\* Whisper mode has just been enabled on the note d; either no pass has run yet,
\* or an earlier pass, which ended with NO_WHISPER one cooldown ago, has marked
\* the content prior as analyzed.
InitScan ==
  /\ \E d \in ScanDocs, prior \in {<<>>} \cup ScanDocs :
       /\ doc = d
       /\ cursor = Len(d)
       /\ wtm = WTMEnable(
                  IF prior = <<>> THEN InitWTM
                  ELSE MarkAnalyzed(InitWTM, prior, StartTime - MIN_WHISPER_INTERVAL),
                  StartTime)
  /\ now = StartTime
  /\ tm = InitTM(FALSE)
  /\ isGenerating = FALSE
  /\ gens = <<>>
  /\ whispers = <<>>
  /\ isAnalyzing = FALSE
  /\ lastParagraphAnalyzed = -1
  /\ analyses = <<>>
  /\ edits = 0
  /\ commands = 0
  /\ ticks = 0
  /\ prevNewline = [at |-> 0, seen |-> FALSE, fired |-> FALSE]
  /\ quiet = FALSE
  /\ lastAdded = 0
  /\ last = [op |-> "init"]
  /\ configured = TRUE
  /\ linkedNotes \in BOOLEAN
  /\ fm \in {[enabled |-> TRUE, hasFirstResponse |-> h] : h \in BOOLEAN}
  /\ input = <<>>

NextScan ==
  \/ UserEdit(0, 0, <<NL>>)
  \/ ToggleWhisper
  \/ Tick
  \/ \E i \in 1..Len(analyses) : AnalysisLinkedDone(i)
  \/ \E i \in 1..Len(analyses) : AnalysisFail(i)
  \/ \E i \in 1..Len(analyses), w \in WhisperTexts : GenerateDone(i, w)
  \/ \E i \in 1..Len(analyses) : FrontmatterDone(i)

SpecScan == InitScan /\ [][NextScan]_vars

----------------------------------------------------------------------------
(* The whisper index under add, remove, clear and edits of a short note.    *)

IndexDoc == <<"a", NL, "b", NL, "c">>
BlankLines == {<<NL>>}

\* the range of line n of d with one of its line breaks: the whole line
WholeLine(d, n) ==
  IF n < DocLines(d) THEN [from |-> LineFrom(d, n), to |-> LineFrom(d, n + 1)]
  ELSE [from |-> Max({0, LineFrom(d, n) - 1}), to |-> Len(d)]

\* the payloads offered for a line: a second one on the first line
IndexTexts(line) == IF line = 1 THEN {<<"w">>, <<"v">>} ELSE {<<"w">>}

InitIndex ==
  /\ Loaded(IndexDoc, "whisper")
  /\ configured = FALSE
  /\ linkedNotes = FALSE
  /\ fm = [enabled |-> FALSE, hasFirstResponse |-> FALSE]
  /\ input = <<>>

NextIndex ==
  \/ \E line \in 1..DocLines(doc) : \E c \in IndexTexts(line) : AddWhisper(line, c)
  \/ \E line \in 1..DocLines(doc) : RemoveWhisper(line)
  \/ ClearAllWhispers
  \/ \E pos \in 0..Len(doc), ins \in BlankLines : UserEdit(pos, pos, ins)
  \/ \E pos \in 0..(Len(doc) - 1) : UserEdit(pos, pos + 1, <<>>)
  \/ \E n \in 1..DocLines(doc) : UserEdit(WholeLine(doc, n).from, WholeLine(doc, n).to, <<>>)

SpecIndex == InitIndex /\ [][NextIndex]_vars

----------------------------------------------------------------------------
(* Context detection on a note drawn from a small set of frontmatters,      *)
(* paths, contents and settings.                                            *)

MaxPhrases == 4
Phrases == {<<"I", "feel">>, <<"however">>, <<"TODO">>}

\* the contents of at most n phrases
RECURSIVE Contents(_)
Contents(n) ==
  IF n = 0 THEN {<<>>}
  ELSE Let(Contents(n - 1), LAMBDA shorter :
         shorter \cup {c \o p : c \in shorter, p \in Phrases})

ContextInputs ==
  [raw : [mood : {"", "Think", "sad"}, style : {"", "Whisper"},
          type : {"", "Journal", "recipe"}],
   path : {<<"note.md">>, <<"Projects", "note.md">>, <<"inbox", "ideas", "tasks", "n.md">>},
   content : Contents(MaxPhrases),
   settings : [defaultStyle : {"muse", "off"}, defaultMood : {"auto", "plan"}]]

\* the unit under test is idle: nothing but the call's result changes
idle == <<doc, cursor, now, tm, isGenerating, gens, whispers, edits, commands, ticks,
          prevNewline, quiet, env>>

\* detectContext(app, file, content, settings)
DetectContext ==
  /\ last' = [op |-> "detectContext",
              counts |-> MoodCounts(input.content, Len(CONTENT_PATTERNS)),
              inferred |-> detectMoodFromContent(input.content),
              result |-> detectContext(input.raw, input.path, input.content,
                                       input.settings)]
  /\ UNCHANGED idle
  /\ UNCHANGED wvars

\* both modes build the context of a backend call for the note, with the
\* session mood currentMood ("auto" for no override)
ResolveMood(currentMood) ==
  /\ last' = [op |-> "resolveMood",
              currentMood |-> currentMood,
              detected |-> detectContext(input.raw, input.path, input.content,
                                         input.settings),
              muse |-> MuseMood(currentMood, input.raw, input.path, input.content,
                                input.settings),
              whisper |-> WhisperMood(currentMood, input.raw)]
  /\ UNCHANGED idle
  /\ UNCHANGED wvars

InitContext ==
  /\ Loaded(<<>>, "off")
  /\ configured = FALSE
  /\ linkedNotes = FALSE
  /\ fm = [enabled |-> FALSE, hasFirstResponse |-> FALSE]
  /\ input \in ContextInputs

NextContext ==
  \/ DetectContext
  \/ \E currentMood \in {"auto"} : ResolveMood(currentMood)

SpecContext == InitContext /\ [][NextContext]_vars

----------------------------------------------------------------------------
(* The annotation grammar on texts put together from a few pieces: openers, *)
(* closers, parts of openers, a line break and a letter.                    *)

MaxPieces == 5
Pieces == {<<":", ":", "m", "u">>, <<"s", "e", "[">>, INLINE_CLOSE,
           INLINE_WHISPER_OPEN, <<NL>>, <<"x">>}

\* the texts of at most n pieces
RECURSIVE Texts(_)
Texts(n) ==
  IF n = 0 THEN {<<>>}
  ELSE Let(Texts(n - 1), LAMBDA shorter :
         shorter \cup {t \o p : t \in shorter, p \in Pieces})

\* the texts of at most n pieces of block markup: openers, a closer line, a
\* payload character and line breaks
RECURSIVE BlockTexts(_)
BlockTexts(n) ==
  IF n = 0 THEN {<<>>}
  ELSE Let(BlockTexts(n - 1), LAMBDA shorter :
         shorter \cup {t \o p : t \in shorter,
                                p \in {MULTILINE_MUSE_OPEN, MULTILINE_WHISPER_OPEN,
                                       <<":", ":", ":">>, <<NL>>, <<"x">>}})

\* parseEnchantments(text)
Parse ==
  /\ last' = [op |-> "parse", blocks |-> parseEnchantments(input.text)]
  /\ UNCHANGED idle
  /\ UNCHANGED wvars

\* removeAllEnchantments(text)
Strip ==
  /\ last' = [op |-> "strip", result |-> removeAllEnchantments(input.text)]
  /\ UNCHANGED idle
  /\ UNCHANGED wvars

\* getCleanContent(text), as buildUserMessage calls it
Clean ==
  /\ \E cleanContent \in {getCleanContent(input.text)} :
       last' = [op |-> "clean", result |-> cleanContent,
                blocks |-> parseEnchantments(cleanContent)]
  /\ UNCHANGED idle
  /\ UNCHANGED wvars

\* parseEnchantments(createMuseBlock(text, multiline))
CreateMuse(multiline) ==
  /\ \E block \in {createMuseBlock(input.text, multiline)} :
       last' = [op |-> "createMuse", multiline |-> multiline, block |-> block,
                blocks |-> parseEnchantments(block)]
  /\ UNCHANGED idle
  /\ UNCHANGED wvars

\* parseEnchantments(createWhisperBlock(text, multiline))
CreateWhisper(multiline) ==
  /\ \E block \in {createWhisperBlock(input.text, multiline)} :
       last' = [op |-> "createWhisper", multiline |-> multiline, block |-> block,
                blocks |-> parseEnchantments(block)]
  /\ UNCHANGED idle
  /\ UNCHANGED wvars

InitParser ==
  /\ Loaded(<<>>, "off")
  /\ configured = FALSE
  /\ linkedNotes = FALSE
  /\ fm = [enabled |-> FALSE, hasFirstResponse |-> FALSE]
  /\ input \in {[text |-> t] : t \in Texts(MaxPieces)}

NextParser ==
  \/ Strip
  \/ Clean
  \/ \E multiline \in BOOLEAN : CreateMuse(multiline)
  \/ \E multiline \in BOOLEAN : CreateWhisper(multiline)

SpecParser == InitParser /\ [][NextParser]_vars

\* parseEnchantments on texts of block markup
InitBlocks ==
  /\ Loaded(<<>>, "off")
  /\ configured = FALSE
  /\ linkedNotes = FALSE
  /\ fm = [enabled |-> FALSE, hasFirstResponse |-> FALSE]
  /\ input \in {[text |-> t] : t \in BlockTexts(MaxPieces - 1)}

NextBlocks == Parse

SpecBlocks == InitBlocks /\ [][NextBlocks]_vars

----------------------------------------------------------------------------
(* Properties *)

TriggerOps == {"pause", "summon", "edit"}
EndOps == {"complete", "fail", "linkfail"}

\* C1 (as stated): when the streaming call throws after zero or more chunks,
\* the note is exactly the text it was before the trigger: placeholder,
\* partial payload and separators are gone.  (No user edit in between.)
C1_RetractionRestores ==
  (last.op = "fail" /\ ~last.edited) => doc = last.pre

\* C2: in every reachable state at most one interactive generation and at
\* most one background analysis are in flight.
C2_AtMostOneInFlight ==
  /\ Len(gens) <= 1
  /\ Len(analyses) <= 1
  /\ isGenerating <=> Len(gens) = 1
  /\ isAnalyzing <=> Len(analyses) = 1

\* an interval tick arrives while an analysis and a generation are in flight
C2_Witness ==
  /\ last.op = "tick" /\ last.busy
  /\ Len(gens) = 1 /\ Len(analyses) = 1

\* C3: a trigger event that arrives while a generation is in flight is
\* dropped: it starts no generation and writes nothing into the note; and
\* when a generation ends, none starts in its place.
C3_BusyTriggerDropped ==
  /\ (last.op \in TriggerOps /\ last.busy) => (~last.started /\ ~last.wrote)
  /\ last.op \in EndOps => gens = <<>>

\* a summon that only the flag stopped: fresh content, cursor outside every
\* annotation, backend configured, a generation in flight
C3_Witness ==
  /\ last.op = "summon" /\ last.busy
  /\ last.fresh /\ ~last.inside /\ configured
  /\ Len(gens) = 1

\* C4: the flag is set exactly while a handleTrigger call is suspended, and it
\* is clear after every end of a call: completion, a throw of the streaming
\* call, a throw while fetching linked notes.
C4_FlagCleared ==
  /\ isGenerating <=> gens # <<>>
  /\ last.op \in EndOps => ~isGenerating

\* the streaming call threw after a chunk and the flag is clear
C4_Witness == last.op = "fail" /\ last.sent > 0 /\ ~isGenerating

\* C5 (as stated): a qualifying edit followed directly by the pause timer's
\* callback, with the detector enabled, the backend configured, the cursor
\* outside every annotation and no generation in flight, starts a generation.
C5_PauseStartsGeneration ==
  [][(/\ last.op = "edit" /\ last.seen /\ last.fired = 0
      /\ last'.op = "pause"
      /\ last'.enabled /\ configured /\ ~last'.inside /\ ~last'.busy)
     => (last'.started /\ last'.wrote)]_vars

\* C6: with the detector enabled, a content-changing newline edit less than
\* 300 ms after the previous one calls the double-enter callback exactly once
\* in that step, with the pause timer cancelled and the timestamp reset.
C6_DoubleConfirm ==
  (/\ last.op = "edit" /\ last.newline /\ last.seen
   /\ last.prev.seen /\ ~last.prev.fired
   /\ now - last.prev.at < DOUBLE_ENTER_THRESHOLD)
  => (last.fired = 1 /\ last.timerAtCall = NoTimer /\ tm.lastEnterTime = 0)

\* two newline edits 250 ms apart, the second fired the callback
C6_Witness ==
  /\ last.op = "edit" /\ last.newline /\ last.fired = 1
  /\ last.prev.seen /\ now - last.prev.at = 250

\* C7: a newline edit 300 ms or more after the previous one never calls the
\* double-enter callback; if the detector saw it, it restarted the pause timer
\* and recorded its time.
C7_SlowEntersOnlyArm ==
  (/\ last.op = "edit" /\ last.newline
   /\ now - last.prev.at >= DOUBLE_ENTER_THRESHOLD)
  => /\ last.fired = 0
     /\ last.seen => (/\ tm.pending
                      /\ tm.pauseTimer = now + pauseDuration
                      /\ tm.lastEnterTime = now)

\* two newline edits exactly 300 ms apart, both seen by the detector
C7_Witness ==
  /\ last.op = "edit" /\ last.newline /\ last.seen /\ last.fired = 0
  /\ last.prev.seen /\ now - last.prev.at = DOUBLE_ENTER_THRESHOLD

\* C8 (as stated): after the rewrite for chunk k, the placeholder of the
\* generation, which no user edit has touched, holds the chunks c1..ck.
C8_PayloadIsAccumulator ==
  \A i \in 1..Len(gens) :
    (gens[i].pc = "streaming" /\ gens[i].sent >= 1 /\ gens[i].intact)
    => StartsAt(doc, MuseInline(gens[i].streamedContent), gens[i].phStart)

\* C9: at completion the detector's last-seen content is the note's text, and
\* as long as the user does not edit, no generation starts: not from a pause
\* timer armed by the placeholder or the rewrites, not from a summon.
C9_CommitDoesNotSelfTrigger ==
  /\ last.op = "complete" => tm.lastContent = doc
  /\ quiet => (gens = <<>> /\ ~isGenerating /\ tm.lastContent = doc)

\* after a commit the pause timer ran its callback, detector enabled and
\* backend configured, and nothing started
C9_Witness ==
  /\ quiet /\ last.op = "pause"
  /\ last.enabled /\ configured /\ ~last.inside /\ ~last.started

\* C10 (as stated): no two entries of the whisper index have the same line.
C10_OneEntryPerLine ==
  \A i, j \in 1..Len(whispers) : i # j => whispers[i].line # whispers[j].line


\* C11: an edit that inserts k blank lines at the start of line L moves every
\* index entry on a line >= L down by k lines and leaves the entries above
\* line L, and every payload, as they were.
C11_InsertShifts ==
  [][\A L \in 1..DocLines(doc) :
       (/\ last'.op = "edit"
        /\ last'.from = last'.to
        /\ last'.ins \in BlankLines
        /\ last'.from = LineFrom(doc, L))
       => /\ Len(whispers') = Len(whispers)
          /\ \A i \in 1..Len(whispers) :
               whispers'[i] = [whispers[i] EXCEPT
                                 !.line = IF @ >= L THEN @ + Len(last'.ins) ELSE @]]_vars

\* the index without the entries on line n, the entries below moved up one line
WithoutLine(ws, n) ==
  Let(SelectSeq(ws, LAMBDA w : w.line # n), LAMBDA kept :
    [i \in 1..Len(kept) |-> [kept[i] EXCEPT !.line = IF @ > n THEN @ - 1 ELSE @]])

\* C12: an edit that deletes line n entirely removes the entries on line n from
\* the index and keeps the others, those below line n moved up by one line.
C12_DeleteDrops ==
  [][\A n \in 1..DocLines(doc) :
       (/\ last'.op = "edit"
        /\ DocLines(doc) > 1
        /\ last'.ins = <<>>
        /\ last'.from = WholeLine(doc, n).from
        /\ last'.to = WholeLine(doc, n).to)
       => /\ Len(whispers') = Len(WithoutLine(whispers, n))
          /\ \A i \in 1..Len(whispers') : whispers'[i] = WithoutLine(whispers, n)[i]]_vars


\* C13: an interval tick calls the analysis callback only when the scanner is
\* enabled and at least 30 s have passed since lastWhisperTime, and any two
\* annotations the scanner adds to the index are at least 30 s apart.
C13_RateLimit ==
  /\ (last.op = "tick" /\ last.started) =>
       (last.called /\ last.since >= MIN_WHISPER_INTERVAL)
  /\ (last.op = "generated" /\ last.added /\ last.prevAdded > 0) =>
       now - last.prevAdded >= MIN_WHISPER_INTERVAL

C15_ExplicitWins ==
  (last.op = "detectContext"
   /\ toLowerCase(input.raw.mood) \in {"reflect", "think", "plan"})
  => (last.result.mood = toLowerCase(input.raw.mood) /\ last.result.source = "explicit")

\* C16: content inference returns mood m exactly when m has a strictly higher
\* match count than both other moods and there are at least 2 matches in all;
\* otherwise it returns nothing and the source of the context is not "content".
StrictlyHighest(counts, m) == \A o \in DOMAIN counts \ {m} : counts[m] > counts[o]
Total(counts) == counts.reflect + counts.think + counts.plan

C16_ContentInference ==
  last.op = "detectContext" =>
    /\ \A m \in DOMAIN last.counts :
         last.inferred = m <=> (StrictlyHighest(last.counts, m) /\ Total(last.counts) >= 2)
    /\ ((\A m \in DOMAIN last.counts : ~StrictlyHighest(last.counts, m))
        \/ Total(last.counts) < 2)
       => (last.inferred = "" /\ last.result.source # "content")

\* C17: the style of the context is the note's explicit style when it has a
\* valid one, otherwise the default style, muse when the default is off,
\* whichever tier decided the mood.
C17_StyleIndependent ==
  last.op = "detectContext" =>
    last.result.style =
      IF toLowerCase(input.raw.style) \in {"muse", "whisper"}
      THEN toLowerCase(input.raw.style)
      ELSE IF input.settings.defaultStyle = "off" THEN "muse"
      ELSE input.settings.defaultStyle


\* C18: removing the annotations of a text from which they were already removed
\* changes nothing: removeAllEnchantments is idempotent.
C18_StripIdempotent ==
  last.op = "strip" => removeAllEnchantments(last.result) = last.result

\* C19: for a payload with no "]::" and no line break, parsing the inline muse
\* block made from it gives exactly one annotation: muse, the payload as its
\* content, not multiline, from offset 0 to the end of the block.
C19_InlineRoundTrip ==
  (/\ last.op = "createMuse" /\ ~last.multiline
   /\ IndexOf(input.text, INLINE_CLOSE) < 0
   /\ IndexOf(input.text, <<NL>>) < 0)
  => last.blocks = <<[type |-> "muse", content |-> input.text, isMultiline |-> FALSE,
                      start |-> 0, end |-> Len(last.block)]>>

\* the payload without its leading and trailing blank lines
RECURSIVE TrimBlankLines(_)
TrimBlankLines(p) ==
  IF p # <<>> /\ Head(p) = NL THEN TrimBlankLines(Tail(p))
  ELSE IF p # <<>> /\ p[Len(p)] = NL THEN TrimBlankLines(SubSeq(p, 1, Len(p) - 1))
  ELSE p

\* C20: for a payload with a line break, the block made from it has the block
\* form, and parsing it gives exactly one annotation: a multiline one whose
\* content is the payload without its leading and trailing blank lines.
C20_BlockRoundTrip ==
  (/\ last.op \in {"createMuse", "createWhisper"}
   /\ IndexOf(input.text, <<NL>>) >= 0)
  => /\ last.block = (IF last.op = "createMuse" THEN MULTILINE_MUSE_OPEN
                      ELSE MULTILINE_WHISPER_OPEN) \o input.text \o MULTILINE_CLOSE
     /\ Len(last.blocks) = 1
     /\ last.blocks[1].isMultiline
     /\ last.blocks[1].type = (IF last.op = "createMuse" THEN "muse" ELSE "whisper")
     /\ last.blocks[1].content = TrimBlankLines(input.text)

\* C21: the clean content of a text holds no annotation: parseEnchantments finds
\* none in getCleanContent(text).
C21_CleanHasNoMarkup ==
  last.op = "clean" => last.blocks = <<>>

\* C22: for every offset of the document, isInsideEnchantment is true exactly
\* when the offset lies between the start and the end of some annotation that
\* parseEnchantments returns, the end included; with no annotation it is false
\* everywhere.
C22_InsideIffSpan ==
  Let(parseEnchantments(doc), LAMBDA blocks :
    \A k \in 0..Len(doc) :
      isInsideEnchantment(doc, k)
        <=> \E b \in 1..Len(blocks) : blocks[b].start <= k /\ k <= blocks[b].end)

\* C22 witness: a summon with the cursor exactly at the end of an annotation was
\* refused as being inside it, in a note that also has offsets outside it.
C22_Witness ==
  /\ last.op = "summon" /\ last.inside /\ ~last.busy /\ ~last.started
  /\ \E b \in 1..Len(parseEnchantments(doc)) :
       /\ parseEnchantments(doc)[b].end = cursor
       /\ parseEnchantments(doc)[b].start > 0
  /\ ~isInsideEnchantment(doc, 0)

\* C23: a summon made with the backend configured, the cursor outside every
\* annotation and no generation in flight starts a generation whatever the
\* detector has seen, and leaves the idle timer as it was: neither armed nor
\* cancelled.
C23_SummonBypassesDetector ==
  [][(/\ commands' = commands + 1
      /\ last'.op = "summon"
      /\ configured
      /\ ~last'.inside
      /\ ~last'.busy)
     => (/\ last'.started
         /\ tm'.pauseTimer = tm.pauseTimer)]_vars

\* C24: while the detector is disabled or destroyed no pause timer is pending,
\* so a timer that was pending when it was switched off never runs its
\* callback; an edit made while it is off invokes no callback and arms no
\* timer; a pause callback runs only with the detector enabled; and switching
\* the detector on arms nothing by itself, so the next callback needs a new
\* edit.
C24_DisabledIsSilent ==
  /\ ~tm.enabled => ~tm.pending /\ tm.pauseTimer = NoTimer
  /\ (last.op = "edit" /\ ~tm.enabled) => last.fired = 0 /\ ~last.started
  /\ last.op = "pause" => last.enabled
  /\ last.op \in {"toggleMuse", "unload"} => ~tm.pending /\ tm.pauseTimer = NoTimer

\* C24 witness: the detector was switched off while its pause timer was
\* pending, and the timer is gone.
C24_Witness ==
  /\ last.op \in {"toggleMuse", "unload"}
  /\ last.wasEnabled /\ last.wasPending
  /\ ~tm.enabled /\ ~tm.pending

C26_DeletedPlaceholderNoOp ==
  [][(/\ \E i \in 1..Len(gens) : gens[i].deleted
      /\ last'.op \in {"chunk", "complete"})
     => doc' = doc]_vars

\* C27: with the backend not configured, a trigger of the interactive path
\* (summon, pause callback, double Enter) that arrives with the cursor outside
\* every annotation starts nothing, leaves the note, the annotation index, the
\* generating flag and the detector's last-seen content as they are, and shows
\* the configuration notice; an interval tick of the background path starts
\* nothing and leaves the index, the analyzing flag, the last-analyzed
\* paragraph and content and the cooldown timestamp as they are.
C27_ConfigurationError ==
  [][~configured =>
       /\ (last'.op \in {"summon", "pause"} /\ ~last'.inside)
          => /\ UNCHANGED <<doc, whispers, isGenerating, gens>>
             /\ tm'.lastContent = tm.lastContent
             /\ last'.notice = "Please configure your LLM provider in settings"
       /\ (last'.op = "edit" /\ last'.fired > 0 /\ ~last'.inside)
          => /\ UNCHANGED <<whispers, isGenerating, gens>>
             /\ ~last'.started
             /\ last'.notice = "Please configure your LLM provider in settings"
       /\ last'.op = "tick"
          => /\ UNCHANGED <<doc, whispers, isAnalyzing, analyses, lastParagraphAnalyzed>>
             /\ wtm'.lastAnalyzedContent = wtm.lastAnalyzedContent
             /\ wtm'.lastWhisperTime = wtm.lastWhisperTime
             /\ ~last'.started]_vars

\* C28: when a step of a background analysis pass throws, the annotation index,
\* the last-analyzed paragraph, the last-analyzed content and the cooldown
\* timestamp are what they were when the pass started, and the analyzing flag
\* is cleared.
C28_FailureLeavesNoPartialState ==
  last.op = "analysisfail"
  => /\ ~isAnalyzing
     /\ [k \in 1..Len(whispers) |-> whispers[k].content]
          = [k \in 1..Len(last.before.whispers) |-> last.before.whispers[k].content]
     /\ lastParagraphAnalyzed = last.before.lastParagraphAnalyzed
     /\ wtm.lastAnalyzedContent = last.before.lastAnalyzedContent
     /\ wtm.lastWhisperTime = last.before.lastWhisperTime

\* C29: the host never holds more than one pause timer of the detector; an
\* edit that the detector sees and that is no double Enter leaves exactly one
\* timer, due one pause duration after that edit, whatever timer was pending
\* before; and the pause callback runs only at the due time of that timer and
\* uses it up, so a burst of edits closer than the pause duration gets one
\* callback, one pause duration after its last edit.
C29_Debounce ==
  /\ [](/\ tm.scheduled <= 1
        /\ tm.pending <=> tm.scheduled = 1
        /\ (last.op = "edit" /\ last.seen /\ last.fired = 0)
           => (tm.pending /\ tm.pauseTimer = now + pauseDuration))
  /\ [][last'.op = "pause"
        => /\ tm.pending /\ now' = tm.pauseTimer /\ now <= now'
           /\ ~last'.started => (~tm'.pending /\ tm'.scheduled = 0)]_vars

\* C29 witness: an Enter at the start and a second edit 250 ms later, then one
\* pause callback, 2 s after the second edit, and no timer left.
C29_Witness ==
  /\ last.op = "pause" /\ last.enabled
  /\ edits = 2
  /\ tm.lastEnterTime = StartTime
  /\ now = StartTime + 250 + pauseDuration
  /\ tm.scheduled = 0 /\ gens = <<>>

\* C30: a tick whose handler is called starts an analysis only if the note
\* differs from the content analyzed last and their lengths differ by at least
\* 50 characters; when that is not so, the tick starts nothing and leaves the
\* index, the analyzing flag, the passes in flight, the last-analyzed paragraph
\* and content and the cooldown timestamp as they were.
C30_SignificantChangeGate ==
  [][last'.op = "tick" =>
       LET significant ==
             /\ doc # wtm.lastAnalyzedContent
             /\ Abs(Len(doc) - Len(wtm.lastAnalyzedContent)) >= SIGNIFICANT_CHANGE
       IN /\ last'.started => significant
          /\ ~significant =>
               /\ UNCHANGED <<doc, whispers, isAnalyzing, analyses,
                              lastParagraphAnalyzed, fm>>
               /\ wtm'.lastAnalyzedContent = wtm.lastAnalyzedContent
               /\ wtm'.lastWhisperTime = wtm.lastWhisperTime]_vars

\* C30 witness: after an edit of one character to a note analyzed before, a
\* tick past the cooldown called the handler, with nothing in flight, and no
\* analysis started.
C30_Witness ==
  /\ last.op = "tick" /\ last.called /\ ~last.busy /\ ~last.started
  /\ edits = 1
  /\ wtm.lastAnalyzedContent # <<>>
  /\ doc # wtm.lastAnalyzedContent
  /\ Abs(Len(doc) - Len(wtm.lastAnalyzedContent)) = 1
  /\ FindParagraphToAnalyze(doc, lastParagraphAnalyzed) >= 0

\* C31: for a note without a valid explicit mood, detectContext returns the
\* mood of the first tier that yields one: the type tag when the dictionary
\* knows it, else the first path segment that names a folder convention, else
\* the mood inferred from the content, else the default mood, reflect when the
\* default is auto.
C31_CascadeOrder ==
  (last.op = "detectContext"
   /\ toLowerCase(input.raw.mood) \notin {"reflect", "think", "plan"})
  => LET type == toLowerCase(input.raw.type)
         folders == {k \in 1..Len(input.path) :
                       toLowerCase(input.path[k]) \in DOMAIN FOLDER_MOOD_PATTERNS}
     IN last.result.mood =
          IF type \in DOMAIN typeMap THEN typeMap[type]
          ELSE IF folders # {}
          THEN FOLDER_MOOD_PATTERNS[toLowerCase(input.path[Min(folders)])]
          ELSE IF last.inferred # "" THEN last.inferred
          ELSE IF input.settings.defaultMood = "auto" THEN "reflect"
          ELSE input.settings.defaultMood

\* C31 witness: a type tag the dictionary does not know, in a folder that names
\* a convention, with content that infers another mood: the folder decides.
C31_Witness ==
  /\ last.op = "detectContext"
  /\ input.raw.mood = "" /\ input.raw.type = "recipe"
  /\ input.path = <<"Projects", "note.md">>
  /\ last.inferred = "think"
  /\ last.result.mood = "plan" /\ last.result.source = "folder"

\* C32: with no session mood override, the foreground and the background path
\* hand the backend the same mood for the same note: the mood that
\* detectContext resolves for it.
C32_SameMoodOnBothPaths ==
  (last.op = "resolveMood" /\ last.currentMood = "auto")
  => (last.muse = last.detected.mood /\ last.whisper = last.detected.mood)

\* C33: every block annotation that parseEnchantments reports ends in a line
\* that consists of exactly ":::" (the closer is followed by a line break or by
\* the end of the text); a text with no such line after an opener has no block
\* annotation.
C33_BlockTermination ==
  last.op = "parse" =>
    \A b \in 1..Len(last.blocks) :
      last.blocks[b].isMultiline
      => \/ last.blocks[b].end = Len(input.text)
         \/ input.text[last.blocks[b].end + 1] = NL

\* C34: the paragraph that a background analysis has selected, trimmed as the
\* selection trims it, is longer than 50 characters and begins with none of
\* the four annotation openers (inline or block, muse or whisper) and not with
\* the frontmatter marker.
C34_TargetIsUserText ==
  \A i \in 1..Len(analyses) :
    Let(Trim(SplitParagraphs(analyses[i].content)[analyses[i].paragraphToAnalyze + 1]),
        LAMBDA para :
          /\ Len(para) > 50
          /\ ~StartsAt(para, <<":", ":", "m", "u", "s", "e", "[">>, 0)
          /\ ~StartsAt(para, <<":", ":", ":", "m", "u", "s", "e">>, 0)
          /\ ~StartsAt(para, <<":", ":", "w", "h", "i", "s", "p", "e", "r", "[">>, 0)
          /\ ~StartsAt(para, <<":", ":", ":", "w", "h", "i", "s", "p", "e", "r">>, 0)
          /\ ~StartsAt(para, <<"-", "-", "-">>, 0))

\* C35: a newline less than 300 ms after a newline that fired the double-enter
\* callback does not fire it again and is recorded as a first Enter; the
\* newline after that, again within 300 ms, fires the callback once more.
C35_NoRefireOnSamePair ==
  (/\ last.op = "edit" /\ last.newline /\ last.seen
   /\ last.prev.seen
   /\ now - last.prev.at < DOUBLE_ENTER_THRESHOLD)
  => IF last.prev.fired
     THEN last.fired = 0 /\ tm.lastEnterTime = now
     ELSE last.fired = 1 /\ tm.lastEnterTime = 0

\* C35 witness: four newlines, each less than 300 ms after the one before; the
\* second fired, the third did not, the fourth fires.
C35_Witness ==
  /\ last.op = "edit" /\ last.newline /\ last.fired = 1
  /\ edits = MaxEdits
  /\ last.prev.seen /\ ~last.prev.fired
  /\ now - last.prev.at = 250
  /\ now = StartTime + 500
  /\ Len(doc) > 5

\* C36 (as stated): a chunk rewrite of a generation whose placeholder is as
\* the generation wrote it leaves the text before the placeholder and the
\* text after it unchanged.
C36_ChunkRewriteFrame ==
  [][\A i \in 1..Len(gens) :
       (/\ last'.op = "chunk" /\ last'.i = i
        /\ gens[i].pc = "streaming" /\ gens[i].intact /\ gens[i].phStart >= 0)
       => LET phStart == gens[i].phStart
              phEnd == phStart + Len(MuseInline(gens[i].written))
          IN /\ SubSeq(doc', 1, phStart) = SubSeq(doc, 1, phStart)
             /\ SubSeq(doc', Len(doc') - (Len(doc) - phEnd) + 1, Len(doc'))
                  = SubSeq(doc, phEnd + 1, Len(doc))]_vars

\* C37 (as stated): when the stream of the only generation, which delivered
\* at least one chunk and whose placeholder the user did not touch, completes,
\* the parse of the note holds a muse annotation whose payload is the
\* concatenation of the chunks.
C37_CommittedPayloadIsResponse ==
  [][(/\ last'.op = "complete"
      /\ Len(gens) = 1 /\ gens[1].sent >= 1 /\ gens[1].intact)
     => \E b \in 1..Len(parseEnchantments(doc')) :
          /\ parseEnchantments(doc')[b].type = "muse"
          /\ parseEnchantments(doc')[b].content = gens[1].streamedContent]_vars

\* the offsets at which the paragraphs of s begin: 0 and every offset that
\* ends a run of two or more line breaks
ParagraphStarts(s) ==
  {0} \cup {j \in 2..Len(s) :
              /\ s[j] = NL /\ s[j - 1] = NL
              /\ (j = Len(s) \/ s[j + 1] # NL)}

\* the offset at which paragraph p (from 0) of s begins
ParagraphStart(s, p) ==
  CHOOSE j \in ParagraphStarts(s) :
    Cardinality({k \in ParagraphStarts(s) : k < j}) = p

\* C38 (as stated): when the only analysis in flight completes with an
\* annotation and the analyzed paragraph is still the paragraph of its number
\* in the note, the entry added to the index is on the line where that
\* paragraph begins in the note as it is now.
C38_EntryOnParagraphLine ==
  [][(/\ last'.op = "generated" /\ last'.added
      /\ Len(analyses) = 1 /\ analyses[1].pc = "generating")
     => Let(analyses[1].paragraphToAnalyze, LAMBDA p :
          (/\ p < Len(SplitParagraphs(doc))
           /\ SplitParagraphs(doc)[p + 1] = SplitParagraphs(analyses[1].content)[p + 1])
          => whispers'[Len(whispers')].line
               = 1 + BreaksBefore(doc, ParagraphStart(doc, p)))]_vars

\* C39: from plugin load under any default style, after any sequence of
\* Toggle Muse and Toggle Whisper commands the interactive detector and the
\* background scanner are never both enabled.
C39_ModeExclusivity == ~(tm.enabled /\ wtm.enabled)

\* C39 witness: the last of MaxToggles commands is a Toggle Muse that enables
\* the detector while the scanner was enabled.
C39_Witness ==
  /\ last.op = "toggleMuse" /\ ~last.wasEnabled /\ last.wasWhisper
  /\ commands = MaxCommands
  /\ tm.enabled /\ ~wtm.enabled /\ wtm.analysisTimer = NoTimer

\* the entries of ws that are not on the line, in their order
OnOtherLines(ws, line) == SelectSeq(ws, LAMBDA w : w.line # line)

\* the number of entries of ws on the line
CountOnLine(ws, line) == Cardinality({k \in 1..Len(ws) : ws[k].line = line})

\* C40: add(line, payload) leaves exactly one entry on the line, with the new
\* payload, and the entries on other lines as they were; remove(line) leaves
\* no entry on the line, the entries on other lines as they were, and the
\* whole index as it was when the line had no entry; clear empties the index.
C40_IndexFrame ==
  [][/\ last'.op = "add"
          => /\ CountOnLine(whispers', last'.line) = 1
             /\ \E k \in 1..Len(whispers') :
                  whispers'[k] = [line |-> last'.line, content |-> last'.content]
             /\ OnOtherLines(whispers', last'.line) = OnOtherLines(whispers, last'.line)
     /\ last'.op = "remove"
          => /\ CountOnLine(whispers', last'.line) = 0
             /\ OnOtherLines(whispers', last'.line) = OnOtherLines(whispers, last'.line)
             /\ CountOnLine(whispers, last'.line) = 0 => whispers' = whispers
     /\ last'.op = "clear" => whispers' = <<>>]_vars

\* C40 witness: an add on a line that had an entry with the other payload,
\* beside an entry on another line.
C40_Witness ==
  /\ last.op = "add" /\ last.had /\ last.content = <<"v">> /\ last.line = 1
  /\ \E k \in 1..Len(whispers) : whispers[k].line # last.line
  /\ \A k \in 1..Len(whispers) : whispers[k].line # last.line => whispers[k].content = <<"w">>

====
